---- MODULE Spec2Model ----
(***************************************************************************)
(* The exception-safety call protocol of the jni crate                     *)
(* (crates/jni/src/macros.rs, crates/jni/src/exceptions.rs).               *)
(*                                                                         *)
(* Each attached thread owns one Env handle.  A thread invokes one of the  *)
(* call macros; the macro's body is executed step by step (pc), every call *)
(* it makes into the JNI function table or into an Env method is appended  *)
(* to the invocation's log together with the pending-exception state at    *)
(* the moment of the call.                                                 *)
(***************************************************************************)
EXTENDS Naturals, Sequences, FiniteSets, TLC

\* ------------------------------------------------------------------ bounds

\* Number of macro invocations one thread makes.
MaxCalls == 2
\* Number of typed `<path> => <expr>` entries written in one catch block.
MaxTyped == 2
\* Number of Env methods a thread calls in a row on its handle.
MaxEnvCalls == 5

\* ------------------------------------------------------------- the runtime

Threads == {"main", "worker"}

\* The value of "no exception pending" / "no throwable".
NoException == "none"

\* Classes of the exceptions the runtime throws in the model.
Throwables == {"java.lang.NumberFormatException", "java.lang.OutOfMemoryError"}

\* The Java class bound to a Rust exception type by bind_exception!.
JavaClass(T) ==
    CASE T = "JNumberFormatException" -> "java.lang.NumberFormatException"
      [] T = "JRuntimeException" -> "java.lang.RuntimeException"
      [] T = "JOutOfMemoryError" -> "java.lang.OutOfMemoryError"
      [] T = "JArrayIndexOutOfBoundsException" -> "java.lang.ArrayIndexOutOfBoundsException"
      [] T = "JArrayStoreException" -> "java.lang.ArrayStoreException"
      [] T = "JClassCircularityError" -> "java.lang.ClassCircularityError"
      [] T = "JClassFormatError" -> "java.lang.ClassFormatError"
      [] T = "JExceptionInInitializerError" -> "java.lang.ExceptionInInitializerError"
      [] T = "JClassNotFoundException" -> "java.lang.ClassNotFoundException"
      [] T = "JIllegalArgumentException" -> "java.lang.IllegalArgumentException"
      [] T = "JIllegalMonitorStateException" -> "java.lang.IllegalMonitorStateException"
      [] T = "JInstantiationException" -> "java.lang.InstantiationException"
      [] T = "JLinkageError" -> "java.lang.LinkageError"
      [] T = "JNoClassDefFoundError" -> "java.lang.NoClassDefFoundError"
      [] T = "JNoSuchFieldError" -> "java.lang.NoSuchFieldError"
      [] T = "JNoSuchMethodError" -> "java.lang.NoSuchMethodError"
      [] T = "JSecurityException" -> "java.lang.SecurityException"
      [] T = "JStringIndexOutOfBoundsException" -> "java.lang.StringIndexOutOfBoundsException"

\* Every exception type exceptions.rs binds.
BoundExTypes ==
    {"JArrayIndexOutOfBoundsException", "JArrayStoreException", "JClassCircularityError",
     "JClassFormatError", "JExceptionInInitializerError", "JClassNotFoundException",
     "JIllegalArgumentException", "JIllegalMonitorStateException",
     "JInstantiationException", "JLinkageError", "JNoClassDefFoundError",
     "JNoSuchFieldError", "JNoSuchMethodError", "JNumberFormatException",
     "JOutOfMemoryError", "JRuntimeException", "JSecurityException",
     "JStringIndexOutOfBoundsException"}

\* The exception types a catch block names.
ExTypes == {"JNumberFormatException", "JRuntimeException", "JOutOfMemoryError"}

\* The classes an object of class c is an instance of.
SuperClasses(c) ==
    CASE c = "java.lang.NumberFormatException" ->
             {"java.lang.NumberFormatException", "java.lang.IllegalArgumentException",
              "java.lang.RuntimeException", "java.lang.Exception", "java.lang.Throwable"}
      [] c = "java.lang.OutOfMemoryError" ->
             {"java.lang.OutOfMemoryError", "java.lang.VirtualMachineError",
              "java.lang.Error", "java.lang.Throwable"}
      [] OTHER -> {c}

\* JNI IsInstanceOf(obj, class).
IsInstanceOf(obj, class) == class \in SuperClasses(obj)

\* The functions the JNI design spec allows with a pending exception.
AllowList ==
    {"ExceptionOccurred", "ExceptionDescribe", "ExceptionClear", "ExceptionCheck",
     "ReleaseStringChars", "ReleaseStringUTFChars", "ReleaseStringCritical",
     "ReleaseArrayElements", "ReleasePrimitiveArrayCritical", "DeleteLocalRef",
     "DeleteGlobalRef", "DeleteWeakGlobalRef", "MonitorExit", "PushLocalFrame",
     "PopLocalFrame", "DetachCurrentThread"}

\* The function-table entries ($name) the model invokes through the macros.
Ops == {"NewString", "GetMethodID", "DeleteLocalRef"}

\* The reference-releasing entries invoked without any check (Drop of a local,
\* global or weak reference).
ReleaseOps == {"DeleteLocalRef", "DeleteGlobalRef", "DeleteWeakGlobalRef"}

\* The raw results a table entry can return.
RawResults(op) == IF op \in AllowList THEN {"void"} ELSE {"null", "ref"}

\* The exceptions a table entry can induce (NoException: it induces none).
Induces(op) == IF op \in AllowList THEN {NoException} ELSE {NoException} \cup Throwables

\* ret.is_null()
is_null(v) == v = "null"

\* ---------------------------------------------------------------- results

\* crate::errors::Result: Ok(val) or Err(kind(label)).
Ok(v) == [tag |-> "Ok", val |-> v, kind |-> "", label |-> <<>>]
Err(k, l) == [tag |-> "Err", val |-> "", kind |-> k, label |-> l]
\* Error::JavaException
JavaException == Err("JavaException", <<>>)
\* Error::NullPtr(ctx)
NullPtr(ctx) == Err("NullPtr", ctx)
\* The value a handler expression written for exception type T evaluates to.
Mapped(T) == Err("Mapped", <<T>>)
\* A panic that unwinds out of the macro instead of a returned value.
Panic == [tag |-> "Panic", val |-> "", kind |-> "expect",
          label |-> <<"Expected an exception after ExceptionCheck">>]
\* A macro invocation the compiler rejected (compile_error!).
CompileError == [tag |-> "CompileError", val |-> "", kind |-> "", label |-> <<>>]
\* No result yet.
NoResult == [tag |-> "None", val |-> "", kind |-> "", label |-> <<>>]

\* ------------------------------------------------------- the catch block

\* What a handler expression can evaluate to.  A typed entry `T => expr` of the
\* model maps to Mapped(T); the `else => expr` entry to one of ElseResults.
ElseResults == {Mapped("else"), Ok("null"), Ok("ref")}

\* One `<path> => <expr>` or `else => <expr>` entry as written.
TypedEntries == {[type |-> T, res |-> Mapped(T)] : T \in ExTypes}
ElseEntries == {[type |-> "else", res |-> r] : r \in ElseResults}
Entries == TypedEntries \cup ElseEntries

\* Every catch block that can be written with at most MaxTyped + 1 entries,
\* well-formed or not.
CatchBlocks == UNION {[1..n -> Entries] : n \in 0..(MaxTyped + 1)}

\* The result of expanding __jni_match_exceptions!: the expansion failed
\* (compile_error!, or no rule matches), or it produced the nested
\* `if let Some(_) = <T>::matches(..)? { expr } else { .. }` ending in the
\* else expression, kept as the sequence of its branches.
Rejected == [ok |-> FALSE, code |-> <<>>]
Expanded(c) == [ok |-> TRUE, code |-> c]

RECURSIVE jni_match_exceptions_mut(_)
jni_match_exceptions_mut(h) ==
    IF h = <<>> THEN Rejected
    ELSE IF Len(h) = 1 /\ h[1].type = "else"
    THEN Expanded(<<[branch |-> "else", type |-> "else", res |-> h[1].res]>>)
    ELSE IF Len(h) = 1
    THEN Expanded(<<[branch |-> "if_matches", type |-> h[1].type, res |-> h[1].res]>>)
    ELSE IF h[1].type # "else"
    THEN LET rest == jni_match_exceptions_mut(Tail(h))
         IN  IF rest.ok
             THEN Expanded(<<[branch |-> "if_matches", type |-> h[1].type,
                              res |-> h[1].res]>> \o rest.code)
             ELSE Rejected
    ELSE Rejected

RECURSIVE jni_match_exceptions(_)
jni_match_exceptions(h) ==
    \* ($env:expr, $ex:expr $(,)?) => compile_error!
    IF h = <<>> THEN Rejected
    \* ($env, $ex, else => $ex_result $(,)?) => $ex_result
    ELSE IF Len(h) = 1 /\ h[1].type = "else"
    THEN Expanded(<<[branch |-> "else", type |-> "else", res |-> h[1].res]>>)
    \* ($env, $ex, $ex_type:path => $ex_result $(,)?) => compile_error!
    ELSE IF Len(h) = 1 THEN Rejected
    \* ($env, $ex, [$ex_name:] $ex_type:path => $ex_result, $($rest)+) =>
    \*     if let Some(_) = <$ex_type>::matches(..)? { $ex_result }
    \*     else { __jni_match_exceptions!($env, $ex, $($rest)+) }
    ELSE IF h[1].type # "else"
    THEN LET rest == jni_match_exceptions(Tail(h))
         IN  IF rest.ok
             THEN Expanded(<<[branch |-> "if_matches", type |-> h[1].type,
                              res |-> h[1].res]>> \o rest.code)
             ELSE Rejected
    \* `else => expr, more entries`: `else` does not parse as a $ex_type:path
    ELSE Rejected

\* --------------------------------------------------------- the Env handle

\* Env::exception_check on a thread whose pending exception is p.
exception_check(p) == p # NoException

\* Result::and_then(|ret| f(ret)) for the null check `f` of the macros.
\* `ret.is_null()` turns Ok(null) into Err(NullPtr("<name> result")).
null_check(name, r) ==
    IF r.tag = "Ok" /\ is_null(r.val) THEN NullPtr(<<name, " result">>) ELSE r

\* Env::is_instance_of_class: IsInstanceOf through the precheck macro.
is_instance_of_class(p, obj, class) ==
    IF exception_check(p) THEN JavaException
    ELSE Ok(IF IsInstanceOf(obj, class) THEN "true" ELSE "false")

\* <ExType>::matches(env, throwable), on a thread whose pending exception is
\* p; found: whether lookup_class finds the class of the exception type.
\* Some(cast of the throwable), NoMatch (Ok(None)) or an error.
Some(x) == [tag |-> "Some", val |-> x, kind |-> "", label |-> <<>>]
NoMatch == [tag |-> "NoMatch", val |-> "", kind |-> "", label |-> <<>>]
\* Mutant: a type test that answers "no match" when the class lookup or the
\* instance test fails.
matches_lenient(p, throwable, T, found) ==
    IF throwable = NoException THEN NullPtr(<<"Invalid null Throwable">>)
    ELSE IF ~found THEN NoMatch
    ELSE LET inst == is_instance_of_class(p, throwable, JavaClass(T))
         IN  IF inst.tag = "Err" THEN NoMatch
             ELSE IF inst.val = "true" THEN Some(throwable)
             ELSE NoMatch

matches(p, throwable, T, found) ==
    IF throwable = NoException THEN NullPtr(<<"Invalid null Throwable">>)
    ELSE IF ~found THEN Err("ClassNotFound", <<JavaClass(T)>>)
    ELSE LET inst == is_instance_of_class(p, throwable, JavaClass(T))
         IN  IF inst.tag = "Err" THEN inst
             ELSE IF inst.val = "true" THEN Some(throwable)
             ELSE NoMatch

\* ------------------------------------------------------------- the macros

ExSafe == "ex_safe_jni_call_no_post_check_ex"
NoPostCheck == "jni_call_no_post_check_ex"
PostCheck == "jni_call_post_check_ex"
PostCheckNullRet == "jni_call_post_check_ex_and_null_ret"
OnlyCheckNullRet == "jni_call_only_check_null_ret"
WithCatch == "jni_call_with_catch"
WithCatchNullCheck == "jni_call_with_catch_and_null_check"
JniTry == "jni_try"

\* The macros that take a `catch |env| { .. }` block.
CatchMacros == {WithCatch, WithCatchNullCheck, JniTry}
\* The macros that start with the pending-exception precheck.
PrecheckMacros == {NoPostCheck, PostCheck, PostCheckNullRet, OnlyCheckNullRet,
                   WithCatch, WithCatchNullCheck}
\* The macros that call `ret.is_null()` on the raw result.
NullCheckMacros == {PostCheckNullRet, OnlyCheckNullRet, WithCatchNullCheck}
Macros == {ExSafe, JniTry} \cup PrecheckMacros

\* What a jni_try block can return.
BlockResults == {Ok("ref"), JavaException}

VARIABLES
    attached,   \* the threads attached to the JVM
    pending,    \* per thread: the pending exception, or NoException
    frames,     \* per thread: the number of local frames pushed
    pc,         \* per thread: the position in the macro being executed
    inv,        \* per thread: the macro invocation being executed
    ret,        \* per thread: the result of the call made (Ok(raw)) or of the block
    caught,     \* per thread: `let e` of the catch closure
    rest,       \* per thread: the branches of the catch block not yet tried
    closure,    \* per thread: the value of the with_local_frame closure
    outcome,    \* per thread: what the last invocation returned
    log,        \* per thread: the calls the invocation has made, in order
    calls       \* per thread: the number of invocations started

vars == <<attached, pending, frames, pc, inv, ret, caught, rest, closure,
          outcome, log, calls>>

NoInv == [w |-> "none", op |-> "none", induces |-> NoException, raw |-> "void",
          site |-> <<>>, block |-> NoResult,
          entryPending |-> NoException, entryFrames |-> 0]

Init ==
    /\ attached = {"main"}
    /\ pending = [t \in Threads |-> NoException]
    /\ frames = [t \in Threads |-> 0]
    /\ pc = [t \in Threads |-> "idle"]
    /\ inv = [t \in Threads |-> NoInv]
    /\ ret = [t \in Threads |-> NoResult]
    /\ caught = [t \in Threads |-> NoException]
    /\ rest = [t \in Threads |-> <<>>]
    /\ closure = [t \in Threads |-> NoResult]
    /\ outcome = [t \in Threads |-> NoResult]
    /\ log = [t \in Threads |-> <<>>]
    /\ calls = [t \in Threads |-> 0]

\* A thread that is attached and between two macro invocations.
Idle(t) == t \in attached /\ pc[t] = "idle"

\* One entry of the log: the function called, its argument, the pending
\* exception at the moment of the call, and what the call did (the exception
\* a table entry, block or handler induced; the answer of a type test).
EventOut(t, fn, arg, out) == [fn |-> fn, arg |-> arg, pending |-> pending[t], out |-> out]
Event(t, fn, arg) == EventOut(t, fn, arg, "")
Log(t, evs) == log' = [log EXCEPT ![t] = @ \o evs]

\* The macro returns o to its caller.
Return(t, o) ==
    /\ outcome' = [outcome EXCEPT ![t] = o]
    /\ pc' = [pc EXCEPT ![t] = "done"]
Goto(t, l) ==
    /\ pc' = [pc EXCEPT ![t] = l]
    /\ UNCHANGED outcome

\* Mutant: jni_call_only_check_null_ret without its null check.
jni_call_only_check_null_ret_mut(name, r) == r

\* The `.and_then(|ret| if ret.is_null() { Err(NullPtr(..)) } else { Ok(ret) })`
\* of each null-checking macro, applied to the result r of the macro it wraps.
\* Mutant: the null check of jni_call_post_check_ex_and_null_ret chained with
\* or_else, an error of the post check becomes Err(NullPtr).
jni_call_post_check_ex_and_null_ret_or_else(name, r) ==
    IF r.tag = "Err" THEN NullPtr(<<name, " result">>) ELSE null_check(name, r)

jni_call_post_check_ex_and_null_ret(name, r) == null_check(name, r)
jni_call_only_check_null_ret(name, r) == null_check(name, r)

\* Mutant: jni_call_with_catch_and_null_check without its null check.
jni_call_with_catch_and_null_check_unchecked(name, r) == r

jni_call_with_catch_and_null_check(name, r) == null_check(name, r)

\* The result of macro w for function name, given the result r of the
\* expression its null check (if it has one) is chained on.
NullLayer(w, name, r) ==
    CASE w = PostCheckNullRet -> jni_call_post_check_ex_and_null_ret(name, r)
      [] w = OnlyCheckNullRet -> jni_call_only_check_null_ret(name, r)
      [] w = WithCatchNullCheck -> jni_call_with_catch_and_null_check(name, r)
      [] OTHER -> r

Finish(t, r) == Return(t, NullLayer(inv[t].w, inv[t].op, r))

\* Mutant: a precheck that never refuses the call.
precheck_mut(p) == NoResult

\* `if $jnienv.exception_check() { Err(JavaException) } else { .. }` of
\* jni_call_no_post_check_ex: the result when the call is refused.
precheck(p) == IF exception_check(p) THEN JavaException ELSE NoResult

\* Mutants: the post check with its condition inverted, and left out.
post_check_inverted(p, r) == IF ~exception_check(p) THEN JavaException ELSE r
post_check_skipped(p, r) == r

\* The closure of jni_call_post_check_ex, given the pending exception after
\* the call and the result of the call.
post_check(p, r) == IF exception_check(p) THEN JavaException ELSE r

\* A thread starts a macro invocation: the call site, with what the runtime
\* will do when the function (or block) is reached.
Invoke(t, w, op, ind, raw, site, blk) ==
    /\ Idle(t)
    /\ calls[t] < MaxCalls
    /\ w = ExSafe => op \in AllowList
    /\ w \in NullCheckMacros => raw # "void"
    /\ IF w \in CatchMacros THEN jni_match_exceptions(site).ok ELSE site = <<>>
    /\ inv' = [inv EXCEPT ![t] =
                 [w |-> w, op |-> op, induces |-> ind, raw |-> raw, site |-> site,
                  block |-> blk, entryPending |-> pending[t],
                  entryFrames |-> frames[t]]]
    /\ pc' = [pc EXCEPT ![t] = CASE w = ExSafe -> "rawcall"
                                 [] w = JniTry -> "block"
                                 [] OTHER -> "precheck"]
    /\ calls' = [calls EXCEPT ![t] = @ + 1]
    /\ ret' = [ret EXCEPT ![t] = NoResult]
    /\ caught' = [caught EXCEPT ![t] = NoException]
    /\ rest' = [rest EXCEPT ![t] = <<>>]
    /\ closure' = [closure EXCEPT ![t] = NoResult]
    /\ outcome' = [outcome EXCEPT ![t] = NoResult]
    /\ log' = [log EXCEPT ![t] = <<>>]
    /\ UNCHANGED <<attached, pending, frames>>

\* A call site whose catch block does not expand: the build fails, nothing
\* runs.
compile_error(t, w, site) ==
    /\ Idle(t)
    /\ w \in CatchMacros
    /\ ~jni_match_exceptions(site).ok
    /\ inv' = [inv EXCEPT ![t] = [NoInv EXCEPT !.w = w, !.site = site]]
    /\ pc' = [pc EXCEPT ![t] = "build_failed"]
    /\ outcome' = [outcome EXCEPT ![t] = CompileError]
    /\ ret' = [ret EXCEPT ![t] = NoResult]
    /\ caught' = [caught EXCEPT ![t] = NoException]
    /\ rest' = [rest EXCEPT ![t] = <<>>]
    /\ closure' = [closure EXCEPT ![t] = NoResult]
    /\ log' = [log EXCEPT ![t] = <<>>]
    /\ UNCHANGED <<attached, pending, frames, calls>>

\* Mutant: the exception-safe call guarded by the pending-exception precheck.
ex_safe_jni_call_prechecked(t) ==
    /\ pc[t] = "rawcall"
    /\ IF exception_check(pending[t])
       THEN /\ Log(t, <<Event(t, "ExceptionCheck", "")>>)
            /\ Return(t, JavaException)
            /\ UNCHANGED ret
       ELSE /\ Log(t, <<Event(t, "call", inv[t].op)>>)
            /\ ret' = [ret EXCEPT ![t] = Ok(inv[t].raw)]
            /\ Return(t, Ok(inv[t].raw))
    /\ UNCHANGED <<attached, pending, frames, inv, caught, rest, closure, calls>>

\* ex_safe_jni_call_no_post_check_ex!: the table entry is called, nothing else.
ex_safe_jni_call_no_post_check_ex(t) ==
    /\ pc[t] = "rawcall"
    /\ Log(t, <<Event(t, "call", inv[t].op)>>)
    /\ ret' = [ret EXCEPT ![t] = Ok(inv[t].raw)]
    /\ Return(t, Ok(inv[t].raw))
    /\ UNCHANGED <<attached, pending, frames, inv, caught, rest, closure, calls>>

\* Mutant: the refusal of the precheck is not propagated (`?` left out), the
\* macro goes on to its own exception check.
jni_call_no_post_check_ex_check_mut(t) ==
    /\ pc[t] = "precheck"
    /\ Log(t, <<Event(t, "ExceptionCheck", "")>>)
    /\ IF precheck(pending[t]).tag = "Err"
       THEN IF inv[t].w \in {WithCatch, WithCatchNullCheck}
            THEN Goto(t, "postcheck")
            ELSE Finish(t, precheck(pending[t]))
       ELSE Goto(t, "call")
    /\ UNCHANGED <<attached, pending, frames, inv, ret, caught, rest, closure, calls>>

\* jni_call_no_post_check_ex!: `if $jnienv.exception_check()`.
jni_call_no_post_check_ex_check(t) ==
    /\ pc[t] = "precheck"
    /\ Log(t, <<Event(t, "ExceptionCheck", "")>>)
    /\ IF precheck(pending[t]).tag = "Err"
       THEN Finish(t, precheck(pending[t]))
       ELSE Goto(t, "call")
    /\ UNCHANGED <<attached, pending, frames, inv, ret, caught, rest, closure, calls>>

\* Mutant: the result of the call is returned by every macro as it is, the
\* steps that follow the call are left out.
jni_call_no_post_check_ex_call_only(t) ==
    /\ pc[t] = "call"
    /\ Log(t, <<EventOut(t, "call", inv[t].op, inv[t].induces)>>)
    /\ pending' = [pending EXCEPT ![t] =
                     IF inv[t].induces # NoException THEN inv[t].induces ELSE @]
    /\ ret' = [ret EXCEPT ![t] = Ok(inv[t].raw)]
    /\ Finish(t, Ok(inv[t].raw))
    /\ UNCHANGED <<attached, frames, inv, caught, rest, closure, calls>>

\* Mutant: jni_call_no_post_check_ex looks for an exception after the call and
\* reports the one it finds.
jni_call_no_post_check_ex_call_checked(t) ==
    /\ pc[t] = "call"
    /\ Log(t, <<EventOut(t, "call", inv[t].op, inv[t].induces)>>)
    /\ pending' = [pending EXCEPT ![t] =
                     IF inv[t].induces # NoException THEN inv[t].induces ELSE @]
    /\ ret' = [ret EXCEPT ![t] = Ok(inv[t].raw)]
    /\ IF inv[t].w \in {NoPostCheck, OnlyCheckNullRet}
       THEN Finish(t, IF inv[t].induces # NoException THEN JavaException
                      ELSE Ok(inv[t].raw))
       ELSE Goto(t, "postcheck")
    /\ UNCHANGED <<attached, frames, inv, caught, rest, closure, calls>>

\* Mutant: the exception a call induces becomes pending in the whole
\* process, on every attached thread.
jni_call_no_post_check_ex_call_process_wide(t) ==
    /\ pc[t] = "call"
    /\ Log(t, <<EventOut(t, "call", inv[t].op, inv[t].induces)>>)
    /\ pending' = [u \in Threads |->
                     IF inv[t].induces # NoException /\ u \in attached
                     THEN inv[t].induces ELSE pending[u]]
    /\ ret' = [ret EXCEPT ![t] = Ok(inv[t].raw)]
    /\ IF inv[t].w \in {NoPostCheck, OnlyCheckNullRet}
       THEN Finish(t, Ok(inv[t].raw))
       ELSE Goto(t, "postcheck")
    /\ UNCHANGED <<attached, frames, inv, caught, rest, closure, calls>>

\* jni_call_no_post_check_ex!: `Ok(((*interface).$version.$name)(env, args))`.
jni_call_no_post_check_ex_call(t) ==
    /\ pc[t] = "call"
    /\ Log(t, <<EventOut(t, "call", inv[t].op, inv[t].induces)>>)
    /\ pending' = [pending EXCEPT ![t] =
                     IF inv[t].induces # NoException THEN inv[t].induces ELSE @]
    /\ ret' = [ret EXCEPT ![t] = Ok(inv[t].raw)]
    /\ IF inv[t].w \in {NoPostCheck, OnlyCheckNullRet}
       THEN Finish(t, Ok(inv[t].raw))
       ELSE Goto(t, "postcheck")
    /\ UNCHANGED <<attached, frames, inv, caught, rest, closure, calls>>

\* Mutant: a post check that finds an exception makes the call again.
jni_call_post_check_ex_retry(t) ==
    /\ pc[t] = "postcheck"
    /\ inv[t].w \in {PostCheck, PostCheckNullRet}
    /\ Log(t, <<Event(t, "ExceptionCheck", "")>>)
    /\ IF exception_check(pending[t])
       THEN Goto(t, "call")
       ELSE Finish(t, post_check(pending[t], ret[t]))
    /\ UNCHANGED <<attached, pending, frames, inv, ret, caught, rest, closure, calls>>

\* Mutant: the post check clears the exception it reports.
jni_call_post_check_ex_clearing(t) ==
    /\ pc[t] = "postcheck"
    /\ inv[t].w \in {PostCheck, PostCheckNullRet}
    /\ Log(t, <<Event(t, "ExceptionCheck", "")>>)
    /\ pending' = [pending EXCEPT ![t] = NoException]
    /\ Finish(t, post_check(pending[t], ret[t]))
    /\ UNCHANGED <<attached, frames, inv, ret, caught, rest, closure, calls>>

\* jni_call_post_check_ex!: the and_then closure after a call that was made.
jni_call_post_check_ex(t) ==
    /\ pc[t] = "postcheck"
    /\ inv[t].w \in {PostCheck, PostCheckNullRet}
    /\ Log(t, <<Event(t, "ExceptionCheck", "")>>)
    /\ Finish(t, post_check(pending[t], ret[t]))
    /\ UNCHANGED <<attached, pending, frames, inv, ret, caught, rest, closure, calls>>

\* Mutant: jni_call_with_catch retrieves the exception with the Env of the
\* caller, before with_local_frame has pushed its frame.
jni_call_with_catch_check_no_frame(t) ==
    /\ pc[t] = "postcheck"
    /\ inv[t].w \in {WithCatch, WithCatchNullCheck}
    /\ Log(t, <<Event(t, "ExceptionCheck", "")>>)
    /\ IF exception_check(pending[t])
       THEN Goto(t, "occurred")
       ELSE Finish(t, ret[t])
    /\ UNCHANGED <<attached, pending, frames, inv, ret, caught, rest, closure, calls>>

\* Mutant: jni_call_with_catch without the catch, Ok(ret) is returned whether
\* or not the call left an exception pending.
jni_call_with_catch_check_uncaught(t) ==
    /\ pc[t] = "postcheck"
    /\ inv[t].w \in {WithCatch, WithCatchNullCheck}
    /\ Log(t, <<Event(t, "ExceptionCheck", "")>>)
    /\ Finish(t, ret[t])
    /\ UNCHANGED <<attached, pending, frames, inv, ret, caught, rest, closure, calls>>

\* jni_call_with_catch!: `if $jnienv.exception_check() { .. } else { Ok(ret) }`.
jni_call_with_catch_check(t) ==
    /\ pc[t] = "postcheck"
    /\ inv[t].w \in {WithCatch, WithCatchNullCheck}
    /\ Log(t, <<Event(t, "ExceptionCheck", "")>>)
    /\ IF exception_check(pending[t])
       THEN Goto(t, "push")
       ELSE Finish(t, ret[t])
    /\ UNCHANGED <<attached, pending, frames, inv, ret, caught, rest, closure, calls>>

\* Mutant: jni_try with a precheck, the block is not run while an exception
\* is pending.
jni_try_block_prechecked(t) ==
    /\ pc[t] = "block"
    /\ IF exception_check(pending[t])
       THEN /\ Log(t, <<Event(t, "ExceptionCheck", "")>>)
            /\ Return(t, JavaException)
            /\ UNCHANGED <<pending, ret>>
       ELSE /\ Log(t, <<EventOut(t, "block", "", inv[t].induces)>>)
            /\ pending' = [pending EXCEPT ![t] = inv[t].induces]
            /\ ret' = [ret EXCEPT ![t] = inv[t].block]
            /\ Goto(t, "trycheck")
    /\ UNCHANGED <<attached, frames, inv, caught, rest, closure, calls>>

\* jni_try!: `let ret = (|| -> $ret_ty { $($jni_code)* })();`.
jni_try_block(t) ==
    /\ pc[t] = "block"
    /\ Log(t, <<EventOut(t, "block", "", inv[t].induces)>>)
    /\ pending' = [pending EXCEPT ![t] =
                     IF @ = NoException THEN inv[t].induces ELSE @]
    /\ ret' = [ret EXCEPT ![t] = inv[t].block]
    /\ Goto(t, "trycheck")
    /\ UNCHANGED <<attached, frames, inv, caught, rest, closure, calls>>

\* Mutant: jni_try returns an error value of the block at once, the pending
\* exception is caught only when the block returned Ok.
jni_try_check_keeps_err(t) ==
    /\ pc[t] = "trycheck"
    /\ Log(t, <<Event(t, "ExceptionCheck", "")>>)
    /\ IF exception_check(pending[t]) /\ ret[t].tag = "Ok"
       THEN Goto(t, "push")
       ELSE Return(t, ret[t])
    /\ UNCHANGED <<attached, pending, frames, inv, ret, caught, rest, closure, calls>>

\* jni_try!: `if $jnienv.exception_check() { .. } else { ret }`.
jni_try_check(t) ==
    /\ pc[t] = "trycheck"
    /\ Log(t, <<Event(t, "ExceptionCheck", "")>>)
    /\ IF exception_check(pending[t])
       THEN Goto(t, "push")
       ELSE Return(t, ret[t])
    /\ UNCHANGED <<attached, pending, frames, inv, ret, caught, rest, closure, calls>>

\* What a handler expression can induce while it runs.
HandlerInduces == {NoException} \cup Throwables

\* with_local_frame: PushLocalFrame before the closure runs.
with_local_frame_push(t) ==
    /\ pc[t] = "push"
    /\ Log(t, <<Event(t, "PushLocalFrame", "")>>)
    /\ frames' = [frames EXCEPT ![t] = @ + 1]
    /\ Goto(t, "occurred")
    /\ UNCHANGED <<attached, pending, inv, ret, caught, rest, closure, calls>>

\* Mutant: a retrieval that yields nothing becomes an error value of the
\* closure instead of a panic.
exception_occurred_or_err(t) ==
    /\ pc[t] = "occurred"
    /\ Log(t, <<Event(t, "ExceptionOccurred", "")>>)
    /\ \E got \in BOOLEAN :
          IF got
          THEN /\ caught' = [caught EXCEPT ![t] = pending[t]]
               /\ Goto(t, "clear")
               /\ UNCHANGED closure
          ELSE /\ closure' = [closure EXCEPT ![t] =
                                NullPtr(<<"Expected an exception after ExceptionCheck">>)]
               /\ Goto(t, "pop")
               /\ UNCHANGED caught
    /\ UNCHANGED <<attached, pending, frames, inv, ret, rest, calls>>

\* Mutant: the class of the first typed entry is looked up as soon as the
\* exception is retrieved, before it is cleared.
exception_occurred_eager_lookup(t) ==
    /\ pc[t] = "occurred"
    /\ Log(t, <<Event(t, "ExceptionOccurred", ""), Event(t, "lookup_class", "")>>)
    /\ \E got \in BOOLEAN :
          IF got
          THEN /\ caught' = [caught EXCEPT ![t] = pending[t]]
               /\ Goto(t, "clear")
               /\ UNCHANGED closure
          ELSE /\ closure' = [closure EXCEPT ![t] = Panic]
               /\ Goto(t, "pop")
               /\ UNCHANGED caught
    /\ UNCHANGED <<attached, pending, frames, inv, ret, rest, calls>>

\* `let e = $env_mut.exception_occurred().expect(..)`: the pending exception,
\* or a panic when the runtime hands out nothing.
exception_occurred(t) ==
    /\ pc[t] = "occurred"
    /\ Log(t, <<Event(t, "ExceptionOccurred", "")>>)
    /\ \E got \in BOOLEAN :
          IF got
          THEN /\ caught' = [caught EXCEPT ![t] = pending[t]]
               /\ Goto(t, "clear")
               /\ UNCHANGED closure
          ELSE /\ closure' = [closure EXCEPT ![t] = Panic]
               /\ Goto(t, "pop")
               /\ UNCHANGED caught
    /\ UNCHANGED <<attached, pending, frames, inv, ret, rest, calls>>

\* Mutant: the catch closure without `$env_mut.exception_clear();`.
exception_clear_mut(t) ==
    /\ pc[t] = "clear"
    /\ rest' = [rest EXCEPT ![t] = jni_match_exceptions(inv[t].site).code]
    /\ Goto(t, "match")
    /\ UNCHANGED <<attached, pending, frames, inv, ret, caught, closure, calls, log>>

\* `$env_mut.exception_clear();`, then the expansion of the catch block starts.
exception_clear(t) ==
    /\ pc[t] = "clear"
    /\ Log(t, <<Event(t, "ExceptionClear", "")>>)
    /\ pending' = [pending EXCEPT ![t] = NoException]
    /\ rest' = [rest EXCEPT ![t] = jni_match_exceptions(inv[t].site).code]
    /\ Goto(t, "match")
    /\ UNCHANGED <<attached, frames, inv, ret, caught, closure, calls>>

\* <ExType>::matches with its answer m, and the calls it makes.
matches_events(t, T, found, m) ==
    <<EventOut(t, "matches", T, m.tag)>> \o
    (IF caught[t] = NoException THEN <<>>
     ELSE IF ~found THEN <<Event(t, "lookup_class", T)>>
     ELSE IF exception_check(pending[t]) THEN <<Event(t, "lookup_class", T)>>
     ELSE <<Event(t, "lookup_class", T), Event(t, "IsInstanceOf", T)>>)

\* Mutant: a branch whose type test answers "no match" ends the matching with
\* the value of the last branch, the others are not tried.
match_exceptions_skip(t) ==
    /\ pc[t] = "match"
    /\ LET b == Head(rest[t]) IN
       IF b.branch = "else"
       THEN /\ Goto(t, "handler")
            /\ UNCHANGED <<rest, closure, log>>
       ELSE \E found \in BOOLEAN :
            LET m == matches(pending[t], caught[t], b.type, found) IN
            /\ Log(t, matches_events(t, b.type, found, m))
            /\ CASE m.tag = "Err" ->
                      /\ closure' = [closure EXCEPT ![t] = m]
                      /\ Goto(t, "pop")
                      /\ UNCHANGED rest
                 [] m.tag = "Some" ->
                      /\ Goto(t, "handler")
                      /\ UNCHANGED <<rest, closure>>
                 [] OTHER ->
                      /\ rest' = [rest EXCEPT ![t] = <<@[Len(@)]>>]
                      /\ Goto(t, "match")
                      /\ UNCHANGED closure
    /\ UNCHANGED <<attached, pending, frames, inv, ret, caught, calls>>

\* Mutant: the type tests are made last entry first.
match_exceptions_last_first(t) ==
    /\ pc[t] = "match"
    /\ LET n == Len(rest[t])
           b == IF n = 1 THEN rest[t][1] ELSE rest[t][n - 1] IN
       IF b.branch = "else"
       THEN /\ Goto(t, "handler")
            /\ UNCHANGED <<rest, closure, log>>
       ELSE \E found \in BOOLEAN :
            LET m == matches(pending[t], caught[t], b.type, found) IN
            /\ Log(t, matches_events(t, b.type, found, m))
            /\ CASE m.tag = "Err" ->
                      /\ closure' = [closure EXCEPT ![t] = m]
                      /\ Goto(t, "pop")
                      /\ UNCHANGED rest
                 [] m.tag = "Some" ->
                      /\ rest' = [rest EXCEPT ![t] = <<b>>]
                      /\ Goto(t, "handler")
                      /\ UNCHANGED closure
                 [] OTHER ->
                      /\ rest' = [rest EXCEPT ![t] =
                                    SubSeq(@, 1, n - 2) \o <<@[n]>>]
                      /\ Goto(t, "match")
                      /\ UNCHANGED closure
    /\ UNCHANGED <<attached, pending, frames, inv, ret, caught, calls>>

\* Mutant: a type test that returns an error counts as "no match" (the `?`
\* after matches left out), the next branch is tried.
match_exceptions_err_as_none(t) ==
    /\ pc[t] = "match"
    /\ LET b == Head(rest[t]) IN
       IF b.branch = "else"
       THEN /\ Goto(t, "handler")
            /\ UNCHANGED <<rest, closure, log>>
       ELSE \E found \in BOOLEAN :
            LET m == matches(pending[t], caught[t], b.type, found) IN
            /\ Log(t, matches_events(t, b.type, found, m))
            /\ CASE m.tag = "Some" ->
                      /\ Goto(t, "handler")
                      /\ UNCHANGED <<rest, closure>>
                 [] OTHER ->
                      /\ rest' = [rest EXCEPT ![t] = Tail(@)]
                      /\ Goto(t, "match")
                      /\ UNCHANGED closure
    /\ UNCHANGED <<attached, pending, frames, inv, ret, caught, calls>>

\* One branch of the expanded catch block:
\* `if let Some(_) = <T>::matches($env, &$ex)? { .. } else { .. }`, or the
\* else expression.
match_exceptions(t) ==
    /\ pc[t] = "match"
    /\ LET b == Head(rest[t]) IN
       IF b.branch = "else"
       THEN /\ Goto(t, "handler")
            /\ UNCHANGED <<rest, closure, log>>
       ELSE \E found \in BOOLEAN :
            LET m == matches(pending[t], caught[t], b.type, found) IN
            /\ Log(t, matches_events(t, b.type, found, m))
            /\ CASE m.tag = "Err" ->
                      /\ closure' = [closure EXCEPT ![t] = m]
                      /\ Goto(t, "pop")
                      /\ UNCHANGED rest
                 [] m.tag = "Some" ->
                      /\ Goto(t, "handler")
                      /\ UNCHANGED <<rest, closure>>
                 [] OTHER ->
                      /\ rest' = [rest EXCEPT ![t] = Tail(@)]
                      /\ Goto(t, "match")
                      /\ UNCHANGED closure
    /\ UNCHANGED <<attached, pending, frames, inv, ret, caught, calls>>

\* Mutant: the handler that is evaluated is the last one of the block,
\* whichever branch was taken.
handler_last(t) ==
    /\ pc[t] = "handler"
    /\ \E h \in HandlerInduces :
          /\ Log(t, <<EventOut(t, "handler", rest[t][Len(rest[t])].type, h)>>)
          /\ pending' = [pending EXCEPT ![t] = IF h # NoException THEN h ELSE @]
    /\ closure' = [closure EXCEPT ![t] = rest[t][Len(rest[t])].res]
    /\ Goto(t, "pop")
    /\ UNCHANGED <<attached, frames, inv, ret, caught, rest, calls>>

\* Mutant: the handler expressions of the selected branch and of every branch
\* after it are evaluated, the value is the one of the selected branch.
handler_all(t) ==
    /\ pc[t] = "handler"
    /\ \E h \in HandlerInduces :
          /\ Log(t, [i \in 1..Len(rest[t]) |->
                       EventOut(t, "handler", rest[t][i].type, h)])
          /\ pending' = [pending EXCEPT ![t] = IF h # NoException THEN h ELSE @]
    /\ closure' = [closure EXCEPT ![t] = Head(rest[t]).res]
    /\ Goto(t, "pop")
    /\ UNCHANGED <<attached, frames, inv, ret, caught, rest, calls>>

\* The handler expression of the branch that was selected.
handler(t) ==
    /\ pc[t] = "handler"
    /\ \E h \in HandlerInduces :
          /\ Log(t, <<EventOut(t, "handler", Head(rest[t]).type, h)>>)
          /\ pending' = [pending EXCEPT ![t] = IF h # NoException THEN h ELSE @]
    /\ closure' = [closure EXCEPT ![t] = Head(rest[t]).res]
    /\ Goto(t, "pop")
    /\ UNCHANGED <<attached, frames, inv, ret, caught, rest, calls>>

\* with_local_frame: PopLocalFrame when the closure has returned or panicked;
\* the macro then returns the closure's value.
with_local_frame_pop(t) ==
    /\ pc[t] = "pop"
    /\ Log(t, <<Event(t, "PopLocalFrame", "")>>)
    /\ frames' = [frames EXCEPT ![t] = @ - 1]
    /\ IF closure[t] = Panic
       THEN /\ outcome' = [outcome EXCEPT ![t] = Panic]
            /\ pc' = [pc EXCEPT ![t] = "panicked"]
       ELSE Finish(t, closure[t])
    /\ UNCHANGED <<attached, pending, inv, ret, caught, rest, closure, calls>>

\* The caller takes the value the macro returned (`__must_use`) and goes on.
must_use(t) ==
    /\ pc[t] = "done"
    /\ pc' = [pc EXCEPT ![t] = "idle"]
    /\ inv' = [inv EXCEPT ![t] = NoInv]
    /\ outcome' = [outcome EXCEPT ![t] = NoResult]
    /\ ret' = [ret EXCEPT ![t] = NoResult]
    /\ caught' = [caught EXCEPT ![t] = NoException]
    /\ rest' = [rest EXCEPT ![t] = <<>>]
    /\ closure' = [closure EXCEPT ![t] = NoResult]
    /\ log' = [log EXCEPT ![t] = <<>>]
    /\ UNCHANGED <<attached, pending, frames, calls>>

\* Env::throw between two macro invocations.
env_throw(t, c) ==
    /\ Idle(t)
    /\ pending[t] = NoException
    /\ pending' = [pending EXCEPT ![t] = c]
    /\ pc' = [pc EXCEPT ![t] = "idle"]
    /\ inv' = [inv EXCEPT ![t] = NoInv]
    /\ outcome' = [outcome EXCEPT ![t] = JavaException]
    /\ ret' = [ret EXCEPT ![t] = NoResult]
    /\ caught' = [caught EXCEPT ![t] = NoException]
    /\ rest' = [rest EXCEPT ![t] = <<>>]
    /\ closure' = [closure EXCEPT ![t] = NoResult]
    /\ log' = [log EXCEPT ![t] = <<>>]
    /\ UNCHANGED <<attached, frames, calls>>

\* Env::exception_clear between two macro invocations.
env_exception_clear(t) ==
    /\ Idle(t)
    /\ pending[t] # NoException
    /\ pending' = [pending EXCEPT ![t] = NoException]
    /\ pc' = [pc EXCEPT ![t] = "idle"]
    /\ inv' = [inv EXCEPT ![t] = NoInv]
    /\ outcome' = [outcome EXCEPT ![t] = NoResult]
    /\ ret' = [ret EXCEPT ![t] = NoResult]
    /\ caught' = [caught EXCEPT ![t] = NoException]
    /\ rest' = [rest EXCEPT ![t] = <<>>]
    /\ closure' = [closure EXCEPT ![t] = NoResult]
    /\ log' = [log EXCEPT ![t] = <<>>]
    /\ UNCHANGED <<attached, frames, calls>>

Next ==
    \/ \E t \in Threads : Idle(t) /\
          \E w \in PrecheckMacros, op \in Ops :
             \E ind \in Induces(op), raw \in RawResults(op) :
                Invoke(t, w, op, ind, raw, <<>>, NoResult)
    \/ \E t \in Threads : Idle(t) /\
          \E op \in ReleaseOps : Invoke(t, ExSafe, op, NoException, "void", <<>>, NoResult)
    \/ \E t \in Threads : Idle(t) /\
          \E w \in {WithCatch, WithCatchNullCheck}, op \in Ops :
             \E ind \in Induces(op), raw \in RawResults(op), site \in CatchBlocks :
                Invoke(t, w, op, ind, raw, site, NoResult)
    \/ \E t \in Threads : Idle(t) /\
          \E ind \in HandlerInduces, blk \in BlockResults, site \in CatchBlocks :
             Invoke(t, JniTry, "block", ind, "void", site, blk)
    \/ \E t \in Threads : Idle(t) /\
          \E w \in CatchMacros, site \in CatchBlocks : compile_error(t, w, site)
    \/ \E t \in Threads : Idle(t) /\ \E c \in Throwables : env_throw(t, c)
    \/ \E t \in Threads : Idle(t) /\ env_exception_clear(t)
    \/ \E t \in Threads : ex_safe_jni_call_no_post_check_ex(t)
    \/ \E t \in Threads : jni_call_no_post_check_ex_check(t)
    \/ \E t \in Threads : jni_call_no_post_check_ex_call(t)
    \/ \E t \in Threads : jni_call_post_check_ex(t)
    \/ \E t \in Threads : jni_call_with_catch_check(t)
    \/ \E t \in Threads : jni_try_block(t)
    \/ \E t \in Threads : jni_try_check(t)
    \/ \E t \in Threads : with_local_frame_push(t)
    \/ \E t \in Threads : exception_occurred(t)
    \/ \E t \in Threads : exception_clear(t)
    \/ \E t \in Threads : match_exceptions(t)
    \/ \E t \in Threads : handler(t)
    \/ \E t \in Threads : with_local_frame_pop(t)
    \/ \E t \in Threads : must_use(t)

Spec == Init /\ [][Next]_vars

\* ------------------------------------------- the Env methods, called directly

\* The Env methods that throw: Env::throw(msg), Env::throw_new(class, msg)
\* and Env::throw_new_void(class).
ThrowOps == {"throw", "throw_new", "throw_new_void"}

\* The exception object each of them makes pending, with the arguments of
\* test_env_throw_apis_return_java_exception_err.
Thrown(op) ==
    CASE op = "throw" -> "RuntimeException(Test Exception)"
      [] op = "throw_new" -> "Exception(something bad happened)"
      [] op = "throw_new_void" -> "NullPointerException()"

\* Class name and detail message of an exception object.
class_name(obj) ==
    CASE obj = "RuntimeException(Test Exception)" -> "java.lang.RuntimeException"
      [] obj = "Exception(something bad happened)" -> "java.lang.Exception"
      [] obj = "NullPointerException()" -> "java.lang.NullPointerException"
      [] OTHER -> obj
message(obj) ==
    CASE obj = "RuntimeException(Test Exception)" -> "Test Exception"
      [] obj = "Exception(something bad happened)" -> "something bad happened"
      [] OTHER -> ""

\* Error::CaughtJavaException { name, msg, .. }
CaughtJavaException(name, msg) == Err("CaughtJavaException", <<name, msg>>)

\* A thread that can call one more Env method.
CanCall(t) == Idle(t) /\ Len(log[t]) < MaxEnvCalls

\* The Env method fn returns o; the call is appended to the log together
\* with the value it returned.
EnvReturn(t, fn, out, o) ==
    /\ Log(t, <<[fn |-> fn, arg |-> "", pending |-> pending[t], out |-> out, res |-> o]>>)
    /\ outcome' = [outcome EXCEPT ![t] = o]
    /\ UNCHANGED <<attached, frames, pc, inv, ret, caught, rest, closure, calls>>

\* Env::throw / throw_new / throw_new_void with nothing pending: the
\* exception is pending and Err(JavaException) is returned.
Env_throw(t, op) ==
    /\ CanCall(t)
    /\ pending[t] = NoException
    /\ pending' = [pending EXCEPT ![t] = Thrown(op)]
    /\ EnvReturn(t, op, Thrown(op), JavaException)

\* Env::exception_check.
Env_exception_check(t) ==
    /\ CanCall(t)
    /\ EnvReturn(t, "exception_check",
                 IF exception_check(pending[t]) THEN "true" ELSE "false",
                 Ok(IF exception_check(pending[t]) THEN "true" ELSE "false"))
    /\ UNCHANGED pending

\* Env::exception_occurred: the pending exception, or nothing.
Env_exception_occurred(t) ==
    /\ CanCall(t)
    /\ EnvReturn(t, "exception_occurred", pending[t],
                 IF pending[t] = NoException THEN NoMatch ELSE Some(pending[t]))
    /\ UNCHANGED pending

\* Mutant: an exception_clear that leaves the exception pending.
Env_exception_clear_noop(t) ==
    /\ CanCall(t)
    /\ EnvReturn(t, "exception_clear", "", Ok("void"))
    /\ UNCHANGED pending

\* Env::exception_clear.
Env_exception_clear(t) ==
    /\ CanCall(t)
    /\ pending' = [pending EXCEPT ![t] = NoException]
    /\ EnvReturn(t, "exception_clear", "", Ok("void"))

\* Mutant: an exception_catch that reports the exception and leaves it
\* pending.
Env_exception_catch_keeps(t) ==
    /\ CanCall(t)
    /\ EnvReturn(t, "exception_catch", pending[t],
                 IF pending[t] = NoException THEN Ok("void")
                 ELSE CaughtJavaException(class_name(pending[t]), message(pending[t])))
    /\ UNCHANGED pending

\* Env::exception_catch: a pending exception is cleared and returned as
\* Err(CaughtJavaException) with its class name and message; Ok(()) when
\* nothing is pending.
Env_exception_catch(t) ==
    /\ CanCall(t)
    /\ pending' = [pending EXCEPT ![t] = NoException]
    /\ EnvReturn(t, "exception_catch", pending[t],
                 IF pending[t] = NoException THEN Ok("void")
                 ELSE CaughtJavaException(class_name(pending[t]), message(pending[t])))

EnvNext ==
    \/ \E t \in Threads : \E op \in ThrowOps : Env_throw(t, op)
    \/ \E t \in Threads : Env_exception_check(t)
    \/ \E t \in Threads : Env_exception_occurred(t)
    \/ \E t \in Threads : Env_exception_clear(t)
    \/ \E t \in Threads : Env_exception_catch(t)

\* The Env methods called directly, one after the other, on a fresh handle.
EnvSpec == Init /\ [][EnvNext]_vars

\* --------------------------------------------- two threads, each with its Env

\* The most invocations each of the two threads makes.
MaxThreadCalls == 1

\* The catch blocks the two threads use: one typed entry and an else entry.
TwoThreadBlocks ==
    {<<typed, [type |-> "else", res |-> Mapped("else")]>> : typed \in TypedEntries}

\* Both threads are attached, each has its own Env, nothing is pending.
TwoThreadInit ==
    /\ attached = Threads
    /\ pending = [t \in Threads |-> NoException]
    /\ frames = [t \in Threads |-> 0]
    /\ pc = [t \in Threads |-> "idle"]
    /\ inv = [t \in Threads |-> NoInv]
    /\ ret = [t \in Threads |-> NoResult]
    /\ caught = [t \in Threads |-> NoException]
    /\ rest = [t \in Threads |-> <<>>]
    /\ closure = [t \in Threads |-> NoResult]
    /\ outcome = [t \in Threads |-> NoResult]
    /\ log = [t \in Threads |-> <<>>]
    /\ calls = [t \in Threads |-> 0]

\* The threads run jni_call_no_post_check_ex, jni_call_post_check_ex and
\* jni_call_with_catch, and throw through their Env, in any interleaving.
TwoThreadNext ==
    \/ \E t \in Threads : Idle(t) /\ calls[t] < MaxThreadCalls /\
          \E w \in {NoPostCheck, PostCheck}, ind \in Induces("NewString") :
             Invoke(t, w, "NewString", ind, "ref", <<>>, NoResult)
    \/ \E t \in Threads : Idle(t) /\ calls[t] < MaxThreadCalls /\
          \E ind \in Induces("NewString"), site \in TwoThreadBlocks :
             Invoke(t, WithCatch, "NewString", ind, "ref", site, NoResult)
    \/ \E t \in Threads : Idle(t) /\ \E c \in Throwables : env_throw(t, c)
    \/ \E t \in Threads : jni_call_no_post_check_ex_check(t)
    \/ \E t \in Threads : jni_call_no_post_check_ex_call(t)
    \/ \E t \in Threads : jni_call_post_check_ex(t)
    \/ \E t \in Threads : jni_call_with_catch_check(t)
    \/ \E t \in Threads : with_local_frame_push(t)
    \/ \E t \in Threads : exception_occurred(t)
    \/ \E t \in Threads : exception_clear(t)
    \/ \E t \in Threads : match_exceptions(t)
    \/ \E t \in Threads : handler(t)
    \/ \E t \in Threads : with_local_frame_pop(t)
    \/ \E t \in Threads : must_use(t)

TwoThreadSpec == TwoThreadInit /\ [][TwoThreadNext]_vars

\* ------------------------------- constructors of bound types and local frames

\* The panic of a failed runtime check.
RuntimeCheckFailure ==
    [tag |-> "Panic", val |-> "", kind |-> "panic",
     label |-> <<"jni runtime check failure">>]

\* An Env is known by the depth of the local frame it was handed out for:
\* 0 for the Env of attach_current_thread, n for the Env given to the closure
\* of the n-th nested with_local_frame.
FrameEvent(fn, env, depth) == [fn |-> fn, env |-> env, depth |-> depth]

\* The most events a thread logs with frames and constructors.
MaxFrameCalls == 7

\* The thread can push or pop a frame or call a constructor.
CanCallFrame(t) == Idle(t) /\ Len(log[t]) < MaxFrameCalls

\* Mutant: a runtime check that lets every Env through.
assert_top_any(env, depth) == TRUE

\* env.assert_top(): the Env is the one of the top-most local frame.
assert_top(env, depth) == env = depth

\* `env.get_java_vm()?.with_local_frame(16, |_| ..)`: a new frame is pushed
\* and stays open while the closure runs.
JavaVM_with_local_frame(t) ==
    /\ CanCallFrame(t)
    /\ frames' = [frames EXCEPT ![t] = @ + 1]
    /\ Log(t, <<FrameEvent("PushLocalFrame", frames[t] + 1, frames[t] + 1)>>)
    /\ UNCHANGED <<attached, pending, pc, inv, ret, caught, rest, closure, outcome, calls>>

\* The closure of the newest with_local_frame returns: its frame is popped.
JavaVM_with_local_frame_return(t) ==
    /\ CanCallFrame(t)
    /\ frames[t] > 0
    /\ frames' = [frames EXCEPT ![t] = @ - 1]
    /\ Log(t, <<FrameEvent("PopLocalFrame", frames[t], frames[t] - 1)>>)
    /\ UNCHANGED <<attached, pending, pc, inv, ret, caught, rest, closure, outcome, calls>>

\* `JBoolean::new(env, true)`, a constructor generated by bind_java_type,
\* called through the Env of frame depth env: the runtime check, then
\* NewObject in the top-most frame.
bind_java_type_new(t, env) ==
    /\ CanCallFrame(t)
    /\ env \in 0..frames[t]
    /\ IF assert_top(env, frames[t])
       THEN /\ Log(t, <<FrameEvent("new", env, frames[t]),
                        FrameEvent("NewObject", env, frames[t])>>)
            /\ outcome' = [outcome EXCEPT ![t] = Ok("ref")]
            /\ UNCHANGED pc
       ELSE /\ Log(t, <<FrameEvent("new", env, frames[t])>>)
            /\ outcome' = [outcome EXCEPT ![t] = RuntimeCheckFailure]
            /\ pc' = [pc EXCEPT ![t] = "panicked"]
    /\ UNCHANGED <<attached, pending, frames, inv, ret, caught, rest, closure, calls>>

FrameNext ==
    \/ \E t \in Threads : JavaVM_with_local_frame(t)
    \/ \E t \in Threads : JavaVM_with_local_frame_return(t)
    \/ \E t \in Threads : CanCallFrame(t) /\ \E env \in 0..frames[t] : bind_java_type_new(t, env)

FrameSpec == Init /\ [][FrameNext]_vars

\* ------------------------------------------ up-casts of generated references

\* The most references a thread holds.
MaxRefs == 3

\* The generated reference types with JCollection as declared supertype.
SubTypes == {"JList", "JSet"}

\* A reference: its Rust type and its raw jobject (0: null).
Ref(type, raw) == [type |-> type, raw |-> raw]

\* reference.is_null()
Reference_is_null(r) == r.raw = 0

\* Mutant: an AsRef cast that gives a default (null) reference.
as_ref_default(r) == Ref("JCollection", 0)

\* `let c: &JCollection = list.as_ref();`
as_ref(r) == Ref("JCollection", r.raw)

\* `list.as_collection()`
as_collection(r) == Ref("JCollection", r.raw)

\* `let c: JCollection = list.into();`
into(r) == Ref("JCollection", r.raw)

\* The three ways of up-casting.
UpCasts == {"as_ref", "as_collection", "into"}
up_cast(how, r) ==
    CASE how = "as_ref" -> as_ref(r)
      [] how = "as_collection" -> as_collection(r)
      [] how = "into" -> into(r)

\* The thread can make one more reference.
CanMakeRef(t) == Idle(t) /\ Len(log[t]) < MaxRefs

\* An entry of the references a thread holds: how it was made and from which
\* of the earlier ones (0: from none).
Held(fn, src, r) == [fn |-> fn, src |-> src, ref |-> r]

\* `JList::null()`
Reference_null(t, T) ==
    /\ CanMakeRef(t)
    /\ Log(t, <<Held("null", 0, Ref(T, 0))>>)
    /\ UNCHANGED <<attached, pending, frames, pc, inv, ret, caught, rest, closure,
                   outcome, calls>>

\* `JList::cast_local(env, env.new_object(..))`: a reference to a new object.
cast_local(t, T) ==
    /\ CanMakeRef(t)
    /\ calls' = [calls EXCEPT ![t] = @ + 1]
    /\ Log(t, <<Held("cast_local", 0, Ref(T, calls[t] + 1))>>)
    /\ UNCHANGED <<attached, pending, frames, pc, inv, ret, caught, rest, closure,
                   outcome>>

\* One of the references held is up-cast to JCollection.
UpCast(t, how, i) ==
    /\ CanMakeRef(t)
    /\ i \in 1..Len(log[t])
    /\ log[t][i].ref.type \in SubTypes
    /\ Log(t, <<Held(how, i, up_cast(how, log[t][i].ref))>>)
    /\ UNCHANGED <<attached, pending, frames, pc, inv, ret, caught, rest, closure,
                   outcome, calls>>

CastNext ==
    \/ \E t \in Threads : CanMakeRef(t) /\ \E T \in SubTypes : Reference_null(t, T)
    \/ \E t \in Threads : CanMakeRef(t) /\ \E T \in SubTypes : cast_local(t, T)
    \/ \E t \in Threads : CanMakeRef(t) /\
          \E how \in UpCasts, i \in 1..Len(log[t]) : UpCast(t, how, i)

CastSpec == Init /\ [][CastNext]_vars

\* ------------------------------------- the `jni = <path>` property of a macro

\* The longest macro input, in tokens.
MaxTokens == 5

\* The identifiers and the tokens of a macro input: the property name jni,
\* another identifier, the punctuation `=`, `,` and `::`, a literal.
Idents == {"jni", "name"}
Tokens == Idents \cup {"=", ",", "::", "5"}
Inputs == UNION {[1..n -> Tokens] : n \in 0..MaxTokens}

\* input.is_empty()
is_empty(input) == input = <<>>

\* input.peek(Token![..]) and input.peek(Ident)
peek(input, token) == input # <<>> /\ Head(input) = token
peek_Ident(input) == input # <<>> /\ Head(input) \in Idents

\* The result of a parser: it failed, or it parsed val; rest is where the
\* cursor of the stream is left.
Parsed(val, cursor) == [ok |-> TRUE, val |-> val, rest |-> cursor]
Failed(cursor) == [ok |-> FALSE, val |-> <<>>, rest |-> cursor]

\* input.parse::<Ident>() and input.parse::<Token![..]>()
parse_Ident(input) ==
    IF peek_Ident(input) THEN Parsed(Head(input), Tail(input)) ELSE Failed(input)
parse_Token(input, token) ==
    IF peek(input, token) THEN Parsed(token, Tail(input)) ELSE Failed(input)

\* input.parse::<syn::Path>(): an optional leading `::`, a segment, and a
\* further segment after every `::` that follows.
RECURSIVE parse_Path_rest(_, _)
parse_Path_rest(path, input) ==
    IF peek(input, "::")
    THEN LET segment == parse_Ident(Tail(input))
         IN  IF segment.ok
             THEN parse_Path_rest(path \o <<"::", segment.val>>, segment.rest)
             ELSE Failed(segment.rest)
    ELSE Parsed(path, input)
parse_Path(input) ==
    LET leading_colon == parse_Token(input, "::")
        segment == parse_Ident(leading_colon.rest)
    IN  IF segment.ok
        THEN parse_Path_rest((IF leading_colon.ok THEN <<"::">> ELSE <<>>)
                                \o <<segment.val>>, segment.rest)
        ELSE Failed(segment.rest)

\* syn::parse_quote!(::jni)
jni_crate_default == <<"::", "jni">>

\* A syn::Error returned by `?`.
SynError == Err("syn::Error", <<"parse">>)

\* What parse_jni_crate_override returns and where it leaves the stream.
Returns(result, cursor) == [result |-> result, rest |-> cursor]

\* Mutant: the first property name is parsed from the stream itself, not
\* from a fork of it.
parse_jni_crate_override_no_fork(input) ==
    IF ~is_empty(input) /\ peek_Ident(input)
    THEN LET first_property == parse_Ident(input) IN
         IF first_property.val = "jni" /\ peek(first_property.rest, "=")
         THEN LET jni_path == parse_Path(Tail(first_property.rest)) IN
              IF ~jni_path.ok THEN Returns(SynError, jni_path.rest)
              ELSE Returns(Ok(jni_path.val),
                           IF peek(jni_path.rest, ",") THEN Tail(jni_path.rest)
                           ELSE jni_path.rest)
         ELSE Returns(Ok(jni_crate_default), first_property.rest)
    ELSE Returns(Ok(jni_crate_default), input)

\* parse_jni_crate_override(input)
parse_jni_crate_override(input) ==
    IF ~is_empty(input) /\ peek_Ident(input)
    THEN LET first_property == parse_Ident(input) IN   \* parsed from input.fork()
         IF first_property.val = "jni" /\ peek(first_property.rest, "=")
         THEN LET property_name == parse_Ident(input)
                  eq == parse_Token(property_name.rest, "=")
                  jni_path == parse_Path(eq.rest)
              IN  IF ~jni_path.ok THEN Returns(SynError, jni_path.rest)
                  ELSE Returns(Ok(jni_path.val),
                               IF peek(jni_path.rest, ",")
                               THEN parse_Token(jni_path.rest, ",").rest
                               ELSE jni_path.rest)
         ELSE Returns(Ok(jni_crate_default), input)
    ELSE Returns(Ok(jni_crate_default), input)

\* A macro is about to parse its input: the stream of thread main holds any
\* sequence of tokens.
ParseInit ==
    /\ attached = {"main"}
    /\ \E input \in Inputs :
          rest = [t \in Threads |-> IF t = "main" THEN input ELSE <<>>]
    /\ pending = [t \in Threads |-> NoException]
    /\ frames = [t \in Threads |-> 0]
    /\ pc = [t \in Threads |-> "idle"]
    /\ inv = [t \in Threads |-> NoInv]
    /\ ret = [t \in Threads |-> NoResult]
    /\ caught = [t \in Threads |-> NoException]
    /\ closure = [t \in Threads |-> NoResult]
    /\ outcome = [t \in Threads |-> NoResult]
    /\ log = [t \in Threads |-> <<>>]
    /\ calls = [t \in Threads |-> 0]

\* The macro calls parse_jni_crate_override on its stream.
call_parse_jni_crate_override(t) ==
    /\ Idle(t)
    /\ inv' = [inv EXCEPT ![t] = [NoInv EXCEPT !.w = "parse_jni_crate_override",
                                    !.site = rest[t]]]
    /\ rest' = [rest EXCEPT ![t] = parse_jni_crate_override(rest[t]).rest]
    /\ Return(t, parse_jni_crate_override(rest[t]).result)
    /\ UNCHANGED <<attached, pending, frames, ret, caught, closure, log, calls>>

ParseNext == \E t \in Threads : call_parse_jni_crate_override(t)

ParseSpec == ParseInit /\ [][ParseNext]_vars

\* ------------------------------------------------ the type test on its own

\* The throwable references a type test is given: null or an exception.
ThrowableRefs == {NoException} \cup Throwables

\* A handle with any pending state and any throwable reference at hand.
MatchesInit ==
    /\ attached = {"main"}
    /\ pending \in [Threads -> {NoException} \cup Throwables]
    /\ caught \in [Threads -> ThrowableRefs]
    /\ \A t \in Threads \ attached : pending[t] = NoException /\ caught[t] = NoException
    /\ frames = [t \in Threads |-> 0]
    /\ pc = [t \in Threads |-> "idle"]
    /\ inv = [t \in Threads |-> NoInv]
    /\ ret = [t \in Threads |-> NoResult]
    /\ rest = [t \in Threads |-> <<>>]
    /\ closure = [t \in Threads |-> NoResult]
    /\ outcome = [t \in Threads |-> NoResult]
    /\ log = [t \in Threads |-> <<>>]
    /\ calls = [t \in Threads |-> 0]

\* `<T>::matches(env, &throwable)` called once; found: whether T's class is
\* found by lookup_class.
call_matches(t, T, found) ==
    /\ Idle(t)
    /\ inv' = [inv EXCEPT ![t] = [NoInv EXCEPT !.w = "matches", !.op = T,
                                    !.raw = IF found THEN "found" ELSE "missing",
                                    !.entryPending = pending[t]]]
    /\ Log(t, matches_events(t, T, found, matches(pending[t], caught[t], T, found)))
    /\ Return(t, matches(pending[t], caught[t], T, found))
    /\ UNCHANGED <<attached, pending, frames, ret, caught, rest, closure, calls>>

MatchesNext ==
    \E t \in Threads : Idle(t) /\
       \E T \in BoundExTypes, found \in BOOLEAN : call_matches(t, T, found)

MatchesSpec == MatchesInit /\ [][MatchesNext]_vars

\* ------------------------------------------------------------------ claims

\* The functions the invocation of thread t has called so far.
Called(t) == {log[t][i].fn : i \in 1..Len(log[t])}
\* The log entries of thread t for function fn.
EventsOf(t, fn) == {i \in 1..Len(log[t]) : log[t][i].fn = fn}
\* A type test of the invocation of thread t returned an error.
TestError(t) == \E i \in EventsOf(t, "matches") : log[t][i].out = "Err"
\* The macro invocation of thread t has returned a value.
Returned(t) == pc[t] = "done"

\* C1: a non-allow-listed function invoked through jni_call_no_post_check_ex
\* while an exception is pending returns Err(JavaException); the only thing
\* the macro calls is the pending-exception query, never the function; the
\* pending exception is the one that was pending on entry.
C1_PrecheckRefusesWhilePending ==
    \A t \in Threads :
       (inv[t].w = NoPostCheck /\ inv[t].op \notin AllowList
          /\ inv[t].entryPending # NoException) =>
          /\ pc[t] \in {"precheck", "done"}
          /\ Called(t) \subseteq {"ExceptionCheck"}
          /\ pending[t] = inv[t].entryPending
          /\ Returned(t) => outcome[t] = JavaException

C1_Witness ==
    \E t \in Threads :
       /\ inv[t].w = NoPostCheck /\ inv[t].op = "NewString"
       /\ inv[t].entryPending # NoException
       /\ Returned(t) /\ outcome[t] = JavaException
       /\ Called(t) = {"ExceptionCheck"}

\* C6: jni_call_post_check_ex entered with no exception pending, around a
\* call that induces none, returns Ok of exactly the raw result of the table
\* entry (called once), and no exception is pending afterwards.
C6_PostCheckReturnsRaw ==
    \A t \in Threads :
       (inv[t].w = PostCheck /\ inv[t].entryPending = NoException
          /\ inv[t].induces = NoException /\ Returned(t)) =>
          /\ outcome[t] = Ok(inv[t].raw)
          /\ pending[t] = NoException
          /\ Cardinality(EventsOf(t, "call")) = 1

C6_Witness ==
    \E t \in Threads :
       /\ inv[t].w = PostCheck /\ inv[t].entryPending = NoException
       /\ inv[t].induces = NoException /\ inv[t].raw = "ref"
       /\ Returned(t) /\ outcome[t] = Ok("ref")

\* C7: a non-allow-listed function called through jni_call_post_check_ex with
\* no exception pending that induces an exception: the macro returns
\* Err(JavaException) whatever the raw result was, and the induced exception
\* is still pending.
C7_PostCheckReportsInduced ==
    \A t \in Threads :
       (inv[t].w = PostCheck /\ inv[t].op \notin AllowList
          /\ inv[t].entryPending = NoException
          /\ inv[t].induces # NoException /\ Returned(t)) =>
          /\ outcome[t] = JavaException
          /\ pending[t] = inv[t].induces
          /\ "ExceptionClear" \notin Called(t)

C7_Witness ==
    \E t \in Threads :
       /\ inv[t].w = PostCheck /\ inv[t].op = "GetMethodID"
       /\ inv[t].entryPending = NoException
       /\ inv[t].induces # NoException /\ inv[t].raw = "ref"
       /\ Returned(t) /\ outcome[t] = JavaException /\ pending[t] = inv[t].induces

\* C9: jni_call_with_catch entered with an exception pending returns
\* Err(JavaException) at once: the function is not called, no local frame is
\* pushed, the exception is neither retrieved nor cleared, no branch of the
\* catch block is evaluated, and the same exception is still pending.
C9_CatchRefusesWhilePending ==
    \A t \in Threads :
       (inv[t].w \in {WithCatch, WithCatchNullCheck}
          /\ inv[t].entryPending # NoException) =>
          /\ pc[t] \in {"precheck", "done"}
          /\ Called(t) \subseteq {"ExceptionCheck"}
          /\ Len(log[t]) <= 1
          /\ frames[t] = inv[t].entryFrames
          /\ caught[t] = NoException
          /\ closure[t] = NoResult
          /\ pending[t] = inv[t].entryPending
          /\ Returned(t) => outcome[t] = JavaException

C9_Witness ==
    \E t \in Threads :
       /\ inv[t].w = WithCatch /\ inv[t].entryPending # NoException
       /\ Len(inv[t].site) = 3
       /\ Returned(t) /\ outcome[t] = JavaException
       /\ pending[t] = inv[t].entryPending

\* C10: a function that returns null and induces no exception gives
\* Err(NullPtr("<name> result")) through the null-checking macros and Ok(null)
\* through the others.
C10_NullResult ==
    \A t \in Threads :
       (inv[t].w \in PrecheckMacros /\ inv[t].entryPending = NoException
          /\ inv[t].induces = NoException /\ inv[t].raw = "null" /\ Returned(t)) =>
          outcome[t] = IF inv[t].w \in NullCheckMacros
                       THEN NullPtr(<<inv[t].op, " result">>)
                       ELSE Ok("null")

C10_Witness ==
    \E t \in Threads :
       /\ inv[t].w = OnlyCheckNullRet /\ inv[t].entryPending = NoException
       /\ inv[t].induces = NoException /\ inv[t].raw = "null"
       /\ Returned(t) /\ outcome[t] = NullPtr(<<"GetMethodID", " result">>)
\* The last index of a log entry of thread t for function fn before entry i
\* exists.
Before(t, fn, i) == \E j \in EventsOf(t, fn) : j < i
\* What the catch block does with the caught exception: type tests and
\* handler expressions.
ChainFns == {"matches", "lookup_class", "IsInstanceOf", "handler"}

\* C8: in jni_call_with_catch and in jni_try the order of events is
\* detect-pending, retrieve, clear, match, handler: every type test and every
\* handler expression runs after ExceptionClear, which runs after
\* ExceptionOccurred, which runs after the ExceptionCheck that found the
\* exception; no type test and no handler starts with an exception pending.
C8_ClearedBeforeMatching ==
    \A t \in Threads :
       inv[t].w \in CatchMacros =>
          /\ \A i \in 1..Len(log[t]) :
                /\ log[t][i].fn \in ChainFns =>
                      /\ log[t][i].pending = NoException
                      /\ Before(t, "ExceptionClear", i)
                /\ log[t][i].fn = "handler" =>
                      \A j \in 1..Len(log[t]) : log[t][j].fn = "matches" => j < i
                /\ log[t][i].fn = "ExceptionClear" =>
                      /\ Before(t, "ExceptionOccurred", i)
                      /\ log[t][i].pending # NoException
                /\ log[t][i].fn = "ExceptionOccurred" =>
                      \E j \in EventsOf(t, "ExceptionCheck") :
                         j < i /\ log[t][j].pending # NoException
          /\ pc[t] \in {"match", "handler"} => pending[t] = NoException

C8_Witness ==
    \E t \in Threads :
       /\ inv[t].w = JniTry /\ Returned(t)
       /\ \E i \in EventsOf(t, "handler") :
             /\ log[t][i].arg = "JRuntimeException"
             /\ log[t][i].pending = NoException
       /\ caught[t] = "java.lang.NumberFormatException"

\* A catch block of zero or more typed entries followed by exactly one else
\* entry, in last position.
WellFormed(site) ==
    /\ Len(site) >= 1
    /\ site[Len(site)].type = "else"
    /\ \A i \in 1..(Len(site) - 1) : site[i].type # "else"

\* C5: a malformed catch block is rejected when the macro is expanded and
\* never reaches run time: every invocation that runs has a catch block of
\* typed entries followed by one else entry, every rejected call site has a
\* catch block that is not of that shape, and a rejected call site has made
\* no call at all.
C5_MalformedChainsDoNotExpand ==
    \A t \in Threads :
       /\ (inv[t].w \in CatchMacros /\ pc[t] # "build_failed") =>
             WellFormed(inv[t].site)
       /\ pc[t] = "build_failed" =>
             /\ ~WellFormed(inv[t].site)
             /\ outcome[t] = CompileError
             /\ log[t] = <<>>

C5_Witness ==
    \E t \in Threads :
       /\ pc[t] = "build_failed" /\ outcome[t] = CompileError
       /\ Len(inv[t].site) = 1 /\ inv[t].site[1].type = "JRuntimeException"

C5_WitnessEmpty ==
    \E t \in Threads : pc[t] = "build_failed" /\ inv[t].site = <<>>

C5_WitnessNoElseLast ==
    \E t \in Threads :
       /\ pc[t] = "build_failed" /\ Len(inv[t].site) = MaxTyped + 1
       /\ inv[t].site[MaxTyped + 1].type # "else"
       /\ inv[t].site[1].type = "else"
\* The matcher of thread t has produced its result (the value of the catch
\* closure) for an exception it caught.
Matched(t) ==
    /\ inv[t].w \in CatchMacros
    /\ pc[t] \in {"pop", "done"}
    /\ caught[t] # NoException
\* Entry i of a catch block is a typed entry whose class the throwable is an
\* instance of.
EntryMatches(site, i, throwable) ==
    /\ site[i].type # "else"
    /\ IsInstanceOf(throwable, JavaClass(site[i].type))
\* The entry of a well-formed catch block that is selected for a throwable
\* when every type test answers: the first typed entry that matches, else the
\* else entry.
FirstMatch(site, throwable) ==
    CHOOSE k \in 1..Len(site) :
       /\ site[k].type = "else" \/ EntryMatches(site, k, throwable)
       /\ \A j \in 1..(k - 1) : ~EntryMatches(site, j, throwable)

\* C3 as stated: with a block [TypeA => X, TypeB => Y, else => Z] and an
\* exception that is an instance of both TypeA and TypeB the matcher's result
\* is X.
C3_Original ==
    \A t \in Threads :
       (Matched(t) /\ Len(inv[t].site) = 3
          /\ EntryMatches(inv[t].site, 1, caught[t])
          /\ EntryMatches(inv[t].site, 2, caught[t])) =>
          closure[t] = inv[t].site[1].res

\* C3 amended: with a block [TypeA => X, TypeB => Y, else => Z] and an
\* exception that is an instance of both TypeA and TypeB, the matcher's result
\* is X and TypeB is never tested, provided the type test of TypeA does not
\* fail with an error (then that error is the result); X and Y differ when
\* the types differ, so the order of the entries decides the result.
C3_FirstMatchWins ==
    \A t \in Threads :
       (Matched(t) /\ Len(inv[t].site) = 3
          /\ EntryMatches(inv[t].site, 1, caught[t])
          /\ EntryMatches(inv[t].site, 2, caught[t])) =>
          /\ Cardinality(EventsOf(t, "matches")) = 1
          /\ \A i \in EventsOf(t, "matches") : log[t][i].arg = inv[t].site[1].type
          /\ IF TestError(t)
             THEN closure[t].tag = "Err" /\ closure[t].kind = "ClassNotFound"
             ELSE closure[t] = inv[t].site[1].res
          /\ inv[t].site[1].type # inv[t].site[2].type =>
                inv[t].site[1].res # inv[t].site[2].res

C3_Witness ==
    \E t \in Threads :
       /\ Matched(t) /\ Len(inv[t].site) = 3
       /\ inv[t].site[1].type = "JRuntimeException"
       /\ inv[t].site[2].type = "JNumberFormatException"
       /\ caught[t] = "java.lang.NumberFormatException"
       /\ closure[t] = Mapped("JRuntimeException")

C3_WitnessSwapped ==
    \E t \in Threads :
       /\ Matched(t) /\ Len(inv[t].site) = 3
       /\ inv[t].site[1].type = "JNumberFormatException"
       /\ inv[t].site[2].type = "JRuntimeException"
       /\ caught[t] = "java.lang.NumberFormatException"
       /\ closure[t] = Mapped("JNumberFormatException")

\* The caught exception is an instance of none of the typed entries' classes.
MatchesNone(t) ==
    \A i \in 1..(Len(inv[t].site) - 1) : ~EntryMatches(inv[t].site, i, caught[t])

\* C4 as stated: when the caught exception matches none of the typed entries
\* the matcher's result is the value of the else handler.
C4_Original ==
    \A t \in Threads :
       (Matched(t) /\ MatchesNone(t)) =>
          closure[t] = inv[t].site[Len(inv[t].site)].res

\* C4 amended: when the caught exception matches none of the typed entries
\* and no type test fails with an error, the matcher's result is the value of
\* the else handler, after one type test per typed entry; a block of the else
\* entry alone maps every exception to the else value and makes no type test.
C4_ElseWhenNoneMatches ==
    \A t \in Threads :
       /\ (Matched(t) /\ MatchesNone(t) /\ ~TestError(t)) =>
             /\ closure[t] = inv[t].site[Len(inv[t].site)].res
             /\ Cardinality(EventsOf(t, "matches")) = Len(inv[t].site) - 1
             /\ \E i \in EventsOf(t, "handler") : log[t][i].arg = "else"
       /\ (inv[t].w \in CatchMacros /\ Len(inv[t].site) = 1) =>
             /\ Called(t) \cap {"matches", "lookup_class", "IsInstanceOf"} = {}
             /\ Matched(t) => closure[t] = inv[t].site[1].res

C4_Witness ==
    \E t \in Threads :
       /\ Matched(t) /\ Len(inv[t].site) = 3 /\ MatchesNone(t) /\ ~TestError(t)
       /\ caught[t] = "java.lang.OutOfMemoryError"
       /\ closure[t] = Ok("ref")

C4_WitnessElseOnly ==
    \E t \in Threads :
       /\ Matched(t) /\ Len(inv[t].site) = 1 /\ log[t] # <<>>
       /\ closure[t] = Mapped("else")
\* A jni_call_with_catch invocation of thread t, entered with no exception
\* pending, whose call induced an exception, has returned.
CaughtAndReturned(t) ==
    /\ inv[t].w = WithCatch
    /\ inv[t].entryPending = NoException
    /\ inv[t].induces # NoException
    /\ Returned(t)

\* C2 as stated: a call through jni_call_with_catch that induces an exception
\* returns with no exception pending and with the result of the first
\* matching handler of the block.
C2_Original ==
    \A t \in Threads :
       CaughtAndReturned(t) =>
          /\ pending[t] = NoException
          /\ outcome[t] = inv[t].site[FirstMatch(inv[t].site, inv[t].induces)].res

\* C2 amended: a call through jni_call_with_catch that induces an exception
\* always clears that exception before it returns; an exception is pending
\* on return only if the handler that was evaluated induced a new one.  The
\* value returned is the result of the first matching handler in declared
\* order, unless a type test at or before that entry fails with an error:
\* then that error is returned and no handler is evaluated.
C2_CatchClearsAndMaps ==
    \A t \in Threads :
       CaughtAndReturned(t) =>
          LET k == FirstMatch(inv[t].site, inv[t].induces) IN
          /\ caught[t] = inv[t].induces
          /\ Cardinality(EventsOf(t, "ExceptionClear")) = 1
          /\ pending[t] # NoException =>
                \E i \in EventsOf(t, "handler") : log[t][i].out = pending[t]
          /\ \A i \in EventsOf(t, "matches") :
                \E j \in 1..k : log[t][i].arg = inv[t].site[j].type
          /\ IF TestError(t)
             THEN /\ outcome[t].tag = "Err" /\ outcome[t].kind = "ClassNotFound"
                  /\ EventsOf(t, "handler") = {}
                  /\ pending[t] = NoException
             ELSE /\ outcome[t] = inv[t].site[k].res
                  /\ Cardinality(EventsOf(t, "handler")) = 1
                  /\ \A i \in EventsOf(t, "handler") :
                        log[t][i].arg = inv[t].site[k].type

C2_Witness ==
    \E t \in Threads :
       /\ CaughtAndReturned(t)
       /\ Len(inv[t].site) = 3
       /\ inv[t].site[1].type = "JOutOfMemoryError"
       /\ inv[t].site[2].type = "JRuntimeException"
       /\ inv[t].induces = "java.lang.NumberFormatException"
       /\ outcome[t] = Mapped("JRuntimeException")
       /\ pending[t] = NoException

C2_WitnessHandlerThrows ==
    \E t \in Threads :
       /\ CaughtAndReturned(t)
       /\ inv[t].induces = "java.lang.NumberFormatException"
       /\ pending[t] = "java.lang.OutOfMemoryError"

C2_WitnessTestError ==
    \E t \in Threads :
       /\ CaughtAndReturned(t) /\ TestError(t)
       /\ outcome[t].tag = "Err"
\* Log entry e is a call of a function of the allow list (a table entry
\* called by a macro, or a function the macro's body calls by name).
AllowListed(e) == IF e.fn = "call" THEN e.arg \in AllowList ELSE e.fn \in AllowList
\* The function log entry e calls.
FnOf(e) == IF e.fn = "call" THEN e.arg ELSE e.fn
\* The pending exception right after the call of log entry i of thread t.
PendingAfter(t, i) == IF i < Len(log[t]) THEN log[t][i + 1].pending ELSE pending[t]

\* C11 as stated: every allow-listed operation invoked while an exception is
\* pending leaves that same exception pending.
C11_Original ==
    \A t \in Threads : \A i \in 1..Len(log[t]) :
       (AllowListed(log[t][i]) /\ log[t][i].pending # NoException) =>
          PendingAfter(t, i) = log[t][i].pending

\* C11 amended: every allow-listed operation other than ExceptionClear that
\* is invoked while an exception is pending leaves that same exception
\* pending; releasing a local, global or weak reference through
\* ex_safe_jni_call_no_post_check_ex with an exception pending calls the
\* table entry, without a check, and returns its raw result.
C11_AllowListedKeepPending ==
    \A t \in Threads :
       /\ \A i \in 1..Len(log[t]) :
             (AllowListed(log[t][i]) /\ FnOf(log[t][i]) # "ExceptionClear"
                /\ log[t][i].pending # NoException) =>
                PendingAfter(t, i) = log[t][i].pending
       /\ (inv[t].w = ExSafe /\ inv[t].entryPending # NoException) =>
             /\ pending[t] = inv[t].entryPending
             /\ Called(t) \subseteq {"call"}
             /\ Returned(t) =>
                   /\ outcome[t] = Ok(inv[t].raw)
                   /\ Len(log[t]) = 1 /\ log[t][1].arg = inv[t].op

C11_Witness ==
    \E t \in Threads :
       /\ inv[t].w = ExSafe /\ inv[t].op = "DeleteGlobalRef"
       /\ inv[t].entryPending = "java.lang.NumberFormatException"
       /\ Returned(t) /\ outcome[t] = Ok("void")
       /\ pending[t] = "java.lang.NumberFormatException"

C11_WitnessFrame ==
    \E t \in Threads : \E i \in EventsOf(t, "PopLocalFrame") :
       /\ log[t][i].pending # NoException
       /\ Returned(t) /\ pending[t] = log[t][i].pending
\* The macros that never catch: precheck, post check and null check only.
CheckOnlyMacros == {NoPostCheck, PostCheck, PostCheckNullRet, OnlyCheckNullRet}

\* While an exception is pending, an invocation of a precheck-based macro on
\* a function that is not allow-listed calls nothing but the pending query
\* and returns Err(JavaException); the check-only macros never call
\* ExceptionClear.
C12_RejectedWhilePending ==
    \A t \in Threads :
       /\ inv[t].w \in CheckOnlyMacros => "ExceptionClear" \notin Called(t)
       /\ (inv[t].w \in PrecheckMacros /\ inv[t].op \notin AllowList
             /\ inv[t].entryPending # NoException) =>
             /\ "call" \notin Called(t)
             /\ Called(t) \subseteq {"ExceptionCheck"}
             /\ pending[t] = inv[t].entryPending
             /\ Returned(t) => outcome[t] = JavaException

\* A pending exception changes only by being cleared, and it is cleared
\* only by the ExceptionClear of a catch closure or by an explicit
\* Env::exception_clear of the caller between two invocations.
C12_ClearedOnlyExplicitly ==
    \A t \in Threads :
       (pending[t] # NoException /\ pending'[t] # pending[t]) =>
          /\ pending'[t] = NoException
          /\ \/ pc[t] = "clear" /\ inv[t].w \in CatchMacros
             \/ Idle(t) /\ pc'[t] = "idle"

\* C12: the precheck, post-check and null-result macros never clear an
\* exception; an exception that became pending stays pending until a catch
\* closure or the caller clears it, and while it is pending every invocation
\* of a precheck-based macro on a function that is not allow-listed is
\* rejected with Err(JavaException) without the function being called.
C12_NeverClearedByCheckMacros ==
    /\ []C12_RejectedWhilePending
    /\ [][C12_ClearedOnlyExplicitly]_vars

C12_Witness ==
    \E t \in Threads :
       /\ inv[t].w = PostCheckNullRet /\ inv[t].op = "GetMethodID"
       /\ inv[t].entryPending = "java.lang.OutOfMemoryError"
       /\ calls[t] = 2
       /\ Returned(t) /\ outcome[t] = JavaException
       /\ pending[t] = "java.lang.OutOfMemoryError"
       /\ Called(t) = {"ExceptionCheck"}
\* An invocation of jni_call_with_catch or
\* jni_call_with_catch_and_null_check of thread t has returned.
CatchCallReturned(t) == inv[t].w \in {WithCatch, WithCatchNullCheck} /\ Returned(t)

C13_WitnessRejected ==
    \E t \in Threads :
       /\ CatchCallReturned(t) /\ outcome[t] = JavaException
       /\ pending[t] # NoException

C13_WitnessNullResult ==
    \E t \in Threads :
       /\ CatchCallReturned(t) /\ outcome[t].kind = "NullPtr"
       /\ pending[t] = NoException
\* The exception jni_try found pending after its block (NoException: none).
FoundAfterBlock(t) ==
    IF EventsOf(t, "ExceptionCheck") = {} THEN NoException
    ELSE log[t][CHOOSE i \in EventsOf(t, "ExceptionCheck") : TRUE].pending

\* C14: jni_try runs its block exactly once and then checks the pending
\* state once.  With an exception pending the value of the block is dropped:
\* the exception is retrieved and cleared and the value returned is the one
\* the catch block produced.  With none pending the value of the block is
\* returned as it is, an error value included, and nothing else is called.
C14_TryBlock ==
    \A t \in Threads :
       (inv[t].w = JniTry /\ Returned(t)) =>
          /\ Cardinality(EventsOf(t, "block")) = 1
          /\ log[t][1].fn = "block"
          /\ Cardinality(EventsOf(t, "ExceptionCheck")) = 1
          /\ ret[t] = inv[t].block
          /\ IF FoundAfterBlock(t) # NoException
             THEN /\ caught[t] = FoundAfterBlock(t)
                  /\ \E i \in EventsOf(t, "ExceptionClear") :
                        /\ log[t][i].pending = caught[t]
                        /\ PendingAfter(t, i) = NoException
                  /\ outcome[t] = closure[t]
                  /\ \/ outcome[t] = inv[t].site[FirstMatch(inv[t].site, caught[t])].res
                     \/ TestError(t) /\ outcome[t].kind = "ClassNotFound"
             ELSE /\ outcome[t] = inv[t].block
                  /\ Called(t) = {"block", "ExceptionCheck"}
                  /\ pending[t] = NoException

C14_Witness ==
    \E t \in Threads :
       /\ inv[t].w = JniTry /\ Returned(t)
       /\ inv[t].block = Ok("ref")
       /\ inv[t].site = <<[type |-> "JNumberFormatException",
                           res |-> Mapped("JNumberFormatException")],
                          [type |-> "else", res |-> Mapped("else")]>>
       /\ caught[t] = "java.lang.NumberFormatException"
       /\ outcome[t] = Mapped("JNumberFormatException")

C14_WitnessErrDropped ==
    \E t \in Threads :
       /\ inv[t].w = JniTry /\ Returned(t)
       /\ inv[t].block = JavaException
       /\ caught[t] # NoException
       /\ outcome[t] = Ok("ref")

C14_WitnessErrKept ==
    \E t \in Threads :
       /\ inv[t].w = JniTry /\ Returned(t)
       /\ inv[t].block = JavaException
       /\ FoundAfterBlock(t) = NoException
       /\ outcome[t] = JavaException
\* The states of the call state machine that log entry i of thread t enters.
\* The pending query before the call enters PrecheckRejected when it finds an
\* exception; the call or block enters Called; the pending query after it
\* enters Success or PendingException; ExceptionOccurred enters Retrieved,
\* or the fatal assertion when it returns nothing; ExceptionClear enters
\* Cleared; the first type test, or the else expression of a block without
\* typed entries, enters Matching; a failed type test enters TypeTestError;
\* the handler expression enters HandlerResult.
Enters(t, i) ==
    LET e == log[t][i]
        made == \E j \in 1..(i - 1) : log[t][j].fn \in {"call", "block"}
        tested == \E j \in 1..(i - 1) : log[t][j].fn = "matches"
    IN  CASE e.fn \in {"call", "block"} -> <<"Called">>
          [] e.fn = "ExceptionCheck" /\ ~made ->
                IF e.pending # NoException THEN <<"PrecheckRejected">> ELSE <<>>
          [] e.fn = "ExceptionCheck" /\ made ->
                IF e.pending # NoException THEN <<"PendingException">> ELSE <<"Success">>
          [] e.fn = "ExceptionOccurred" ->
                IF closure[t] = Panic THEN <<"FatalAssertion">> ELSE <<"Retrieved">>
          [] e.fn = "ExceptionClear" -> <<"Cleared">>
          [] e.fn = "matches" ->
                (IF tested THEN <<>> ELSE <<"Matching">>) \o
                (IF e.out = "Err" THEN <<"TypeTestError">> ELSE <<>>)
          [] e.fn = "handler" ->
                (IF tested THEN <<>> ELSE <<"Matching">>) \o <<"HandlerResult">>
          [] OTHER -> <<>>

\* The states the invocation of thread t has entered, in order.
RECURSIVE PathUpTo(_, _)
PathUpTo(t, n) == IF n = 0 THEN <<"NoCallMade">> ELSE PathUpTo(t, n - 1) \o Enters(t, n)
Path(t) == PathUpTo(t, Len(log[t]))

\* p is an initial part of q.
IsPrefix(p, q) == Len(p) <= Len(q) /\ SubSeq(q, 1, Len(p)) = p

Rejection == <<"NoCallMade", "PrecheckRejected">>
SuccessPath == <<"NoCallMade", "Called", "Success">>
CatchPath == <<"NoCallMade", "Called", "PendingException", "Retrieved", "Cleared",
               "Matching", "HandlerResult">>
TestErrorPath == <<"NoCallMade", "Called", "PendingException", "Retrieved", "Cleared",
                   "Matching", "TypeTestError">>
FatalPath == <<"NoCallMade", "Called", "PendingException", "FatalAssertion">>

\* The invocation of thread t has ended: it returned or it panicked.
Ended(t) == pc[t] \in {"done", "panicked"}

\* C15 as stated: every invocation of a catch macro runs through the state
\* machine once and ends in Success, HandlerResult or PrecheckRejected.
C15_Original ==
    \A t \in Threads :
       (inv[t].w \in CatchMacros /\ Ended(t)) =>
          Path(t) \in {Rejection, SuccessPath, CatchPath}

\* C15 amended: every invocation of jni_call_with_catch and of jni_try goes
\* NoCallMade -> Called -> {Success | PendingException -> Retrieved ->
\* Cleared -> Matching -> HandlerResult}, each state entered at most once.
\* An invocation that returns ends in exactly one of Success, HandlerResult,
\* PrecheckRejected (entered only from NoCallMade, with an exception pending
\* on entry, never by jni_try) or, from Matching, in the error of a type test
\* that failed; an invocation whose retrieval yields nothing ends, from
\* PendingException, in the fatal assertion.
C15_StateMachine ==
    \A t \in Threads :
       (inv[t].w \in CatchMacros /\ pc[t] # "build_failed") =>
          /\ \E q \in {Rejection, SuccessPath, CatchPath, TestErrorPath, FatalPath} :
                IsPrefix(Path(t), q)
          /\ Returned(t) =>
                Path(t) \in {Rejection, SuccessPath, CatchPath, TestErrorPath}
          /\ pc[t] = "panicked" <=> Path(t) = FatalPath /\ "PopLocalFrame" \in Called(t)
          /\ IsPrefix(Rejection, Path(t)) <=>
                (inv[t].w # JniTry /\ inv[t].entryPending # NoException
                   /\ Called(t) # {})

C15_Witness ==
    \E t \in Threads :
       inv[t].w = WithCatch /\ Returned(t) /\ Path(t) = CatchPath

C15_WitnessTry ==
    \E t \in Threads :
       inv[t].w = JniTry /\ Returned(t) /\ Path(t) = CatchPath

C15_WitnessSuccess ==
    \E t \in Threads :
       inv[t].w = WithCatch /\ Returned(t) /\ Path(t) = SuccessPath

C15_WitnessRejected ==
    \E t \in Threads :
       inv[t].w = WithCatch /\ Returned(t) /\ Path(t) = Rejection
\* The calls of the selected table entry (or runs of the block) the
\* invocation of thread t has made.
Attempts(t) == EventsOf(t, "call") \cup EventsOf(t, "block")
\* The precheck refuses the invocation of thread t.
Refused(t) == inv[t].w \in PrecheckMacros /\ inv[t].entryPending # NoException
\* The call of the invocation of thread t was made and induced an exception.
InducedByCall(t) ==
    \E i \in EventsOf(t, "call") : log[t][i].out \in Throwables

C16_WitnessNoPostCheck ==
    \E t \in Threads :
       /\ inv[t].w = NoPostCheck /\ Returned(t) /\ InducedByCall(t)
       /\ outcome[t] = Ok("ref") /\ pending[t] # NoException

C16_WitnessRefused ==
    \E t \in Threads :
       /\ inv[t].w = OnlyCheckNullRet /\ Returned(t) /\ Refused(t)
       /\ Attempts(t) = {} /\ outcome[t] = JavaException
\* The pending query a catch macro makes after its call or block found an
\* exception.
FoundAfterCall(t) ==
    \E i \in EventsOf(t, "ExceptionCheck") :
       /\ \E j \in Attempts(t) : j < i
       /\ log[t][i].pending # NoException

\* The positions of a catch macro that are inside the with_local_frame
\* closure.
InClosure == {"occurred", "clear", "match", "handler", "pop"}

\* C17: the catch macros push one local frame, and only after the pending
\* query found an exception; the exception is retrieved, cleared, tested and
\* handled inside that frame; the frame is popped once, before the macro
\* returns or the panic leaves it, whether the handler gave Ok or an error, a
\* type test failed or the retrieval gave nothing; the frame depth after
\* the invocation is the depth before it.
C17_FrameBalanced ==
    \A t \in Threads :
       (inv[t].w \in CatchMacros /\ pc[t] # "build_failed") =>
          /\ frames[t] = inv[t].entryFrames + (IF pc[t] \in InClosure THEN 1 ELSE 0)
          /\ Cardinality(EventsOf(t, "PushLocalFrame")) <= 1
          /\ Cardinality(EventsOf(t, "PopLocalFrame")) <= 1
          /\ \A i \in EventsOf(t, "PushLocalFrame") :
                /\ i > 1 /\ log[t][i - 1].fn = "ExceptionCheck"
                /\ log[t][i - 1].pending # NoException
                /\ log[t][i].pending # NoException
          /\ \A i \in 1..Len(log[t]) :
                log[t][i].fn \in {"ExceptionOccurred", "ExceptionClear"} \cup ChainFns =>
                   /\ Before(t, "PushLocalFrame", i)
                   /\ ~Before(t, "PopLocalFrame", i)
          /\ Ended(t) =>
                /\ frames[t] = inv[t].entryFrames
                /\ EventsOf(t, "PushLocalFrame") # {} =>
                      /\ EventsOf(t, "PopLocalFrame") = {Len(log[t])}
                      /\ FoundAfterCall(t)

C17_Witness ==
    \E t \in Threads :
       /\ inv[t].w = WithCatch /\ Returned(t)
       /\ "PushLocalFrame" \in Called(t) /\ "handler" \in Called(t)
       /\ outcome[t] = Ok("ref")
       /\ frames[t] = inv[t].entryFrames

C17_WitnessHandlerErr ==
    \E t \in Threads :
       /\ inv[t].w = JniTry /\ Returned(t)
       /\ "PopLocalFrame" \in Called(t) /\ outcome[t] = Mapped("else")

C17_WitnessTestError ==
    \E t \in Threads :
       /\ inv[t].w = WithCatch /\ Returned(t) /\ TestError(t)
       /\ "PopLocalFrame" \in Called(t) /\ frames[t] = inv[t].entryFrames

C17_WitnessPanic ==
    \E t \in Threads :
       /\ inv[t].w = WithCatch /\ pc[t] = "panicked"
       /\ "PopLocalFrame" \in Called(t) /\ frames[t] = inv[t].entryFrames
\* The catch closure of thread t asked for the pending exception and got
\* nothing.
RetrievedNothing(t) ==
    /\ inv[t].w \in CatchMacros
    /\ "ExceptionOccurred" \in Called(t)
    /\ caught[t] = NoException

\* C18: when the pending query of a catch macro reports an exception and
\* ExceptionOccurred yields nothing, the macro panics with "Expected an
\* exception after ExceptionCheck": it returns no value, neither an error nor
\* a handler's result, it does not call ExceptionClear and evaluates no type
\* test and no handler; the panic happens on no other path.
C18_FatalAssertion ==
    \A t \in Threads :
       /\ RetrievedNothing(t) =>
             /\ FoundAfterCall(t)
             /\ pc[t] \in {"pop", "panicked"}
             /\ closure[t] = Panic
             /\ Panic.label = <<"Expected an exception after ExceptionCheck">>
             /\ outcome[t] = IF pc[t] = "panicked" THEN Panic ELSE NoResult
             /\ "ExceptionClear" \notin Called(t)
             /\ Called(t) \cap ChainFns = {}
             /\ pending[t] # NoException
       /\ (pc[t] = "panicked" \/ closure[t] = Panic \/ outcome[t] = Panic) =>
             RetrievedNothing(t)

C18_Witness ==
    \E t \in Threads :
       /\ RetrievedNothing(t) /\ inv[t].w = JniTry
       /\ pc[t] = "panicked" /\ outcome[t] = Panic
       /\ pending[t] = "java.lang.OutOfMemoryError"

C18_WitnessCall ==
    \E t \in Threads :
       /\ RetrievedNothing(t) /\ inv[t].w = WithCatchNullCheck
       /\ pc[t] = "panicked" /\ outcome[t] = Panic
\* Log entries i, i + 1, i + 2 of thread t are a retrieval of a pending
\* exception, a clear and a pending query.
RoundTripAt(t, i) ==
    /\ i + 2 <= Len(log[t])
    /\ log[t][i].fn = "exception_occurred" /\ log[t][i].pending # NoException
    /\ log[t][i + 1].fn = "exception_clear"
    /\ log[t][i + 2].fn = "exception_check"

\* C19: with an exception pending, exception_occurred returns that exception
\* and leaves it pending, and after the exception_clear that follows
\* exception_check answers false; exception_occurred with nothing pending
\* returns nothing, never an exception object.
C19_RoundTrip ==
    \A t \in Threads : \A i \in 1..Len(log[t]) :
       /\ RoundTripAt(t, i) =>
             /\ log[t][i].res = Some(log[t][i].pending)
             /\ log[t][i + 1].pending = log[t][i].pending
             /\ log[t][i + 2].pending = NoException
             /\ log[t][i + 2].res = Ok("false")
       /\ (log[t][i].fn = "exception_occurred" /\ log[t][i].pending = NoException) =>
             /\ log[t][i].res = NoMatch
             /\ PendingAfter(t, i) = NoException

C19_Witness ==
    \E t \in Threads :
       /\ Len(log[t]) = 4
       /\ log[t][1].fn = "throw_new"
       /\ RoundTripAt(t, 2)
       /\ outcome[t] = Ok("false")

C19_WitnessNothing ==
    \E t \in Threads : \E i \in EventsOf(t, "exception_occurred") :
       /\ i > 1 /\ log[t][i - 1].fn = "exception_clear"
       /\ log[t][i].res = NoMatch

\* C20: throw, throw_new and throw_new_void each return Err(JavaException)
\* and leave the exception they made pending; the exception_catch that
\* follows returns Err(CaughtJavaException) with the class name and the
\* message of that exception and leaves nothing pending; this holds for
\* every throw/catch pair made on the handle, whatever was called before.
C20_ThrowThenCatch ==
    \A t \in Threads : \A i \in 1..Len(log[t]) :
       /\ log[t][i].fn \in ThrowOps =>
             /\ log[t][i].res = JavaException
             /\ PendingAfter(t, i) = Thrown(log[t][i].fn)
             /\ exception_check(PendingAfter(t, i))
       /\ (i > 1 /\ log[t][i].fn = "exception_catch" /\ log[t][i - 1].fn \in ThrowOps) =>
             /\ log[t][i].res =
                   CASE log[t][i - 1].fn = "throw" ->
                           CaughtJavaException("java.lang.RuntimeException", "Test Exception")
                     [] log[t][i - 1].fn = "throw_new" ->
                           CaughtJavaException("java.lang.Exception", "something bad happened")
                     [] log[t][i - 1].fn = "throw_new_void" ->
                           CaughtJavaException("java.lang.NullPointerException", "")
             /\ ~exception_check(PendingAfter(t, i))

C20_Witness ==
    \E t \in Threads :
       /\ Len(log[t]) = 4
       /\ log[t][1].fn = "throw" /\ log[t][2].fn = "exception_catch"
       /\ log[t][3].fn = "throw" /\ log[t][4].fn = "exception_catch"
       /\ log[t][2].res = log[t][4].res
       /\ outcome[t] = CaughtJavaException("java.lang.RuntimeException", "Test Exception")
       /\ pending[t] = NoException
\* A call of <T>::matches by thread t has returned.
MatchesReturned(t) == inv[t].w = "matches" /\ Returned(t)

\* C21: <T>::matches returns Err(NullPtr("Invalid null Throwable")) for a
\* null throwable, without a class lookup or an instance test.  For a
\* throwable that is not null it looks the class up; a lookup that fails is
\* returned as its error, without an instance test; an instance test that is
\* refused is returned as its error; otherwise the answer is Some(the same
\* throwable) exactly when the throwable is an instance of T's class, and
\* None when it is not.
C21_Matches ==
    \A t \in Threads :
       MatchesReturned(t) =>
          IF caught[t] = NoException
          THEN /\ outcome[t] = NullPtr(<<"Invalid null Throwable">>)
               /\ Called(t) = {"matches"}
          ELSE /\ "lookup_class" \in Called(t)
               /\ IF inv[t].raw = "missing"
                  THEN /\ outcome[t].tag = "Err"
                       /\ "IsInstanceOf" \notin Called(t)
                  ELSE IF inv[t].entryPending # NoException
                  THEN /\ outcome[t] = JavaException
                       /\ "IsInstanceOf" \notin Called(t)
                  ELSE /\ "IsInstanceOf" \in Called(t)
                       /\ outcome[t] = IF IsInstanceOf(caught[t], JavaClass(inv[t].op))
                                       THEN Some(caught[t]) ELSE NoMatch

C21_Witness ==
    \E t \in Threads :
       /\ MatchesReturned(t) /\ inv[t].op = "JIllegalArgumentException"
       /\ caught[t] = "java.lang.NumberFormatException"
       /\ outcome[t] = Some("java.lang.NumberFormatException")

C21_WitnessNull ==
    \E t \in Threads :
       /\ MatchesReturned(t) /\ caught[t] = NoException
       /\ outcome[t].kind = "NullPtr"

C21_WitnessNone ==
    \E t \in Threads :
       /\ MatchesReturned(t) /\ inv[t].op = "JSecurityException"
       /\ caught[t] = "java.lang.OutOfMemoryError"
       /\ outcome[t] = NoMatch

C21_WitnessLookupFails ==
    \E t \in Threads :
       /\ MatchesReturned(t) /\ inv[t].raw = "missing"
       /\ caught[t] # NoException /\ outcome[t].kind = "ClassNotFound"
\* Thread t takes no part in the step: nothing of it changes.
Untouched(t) ==
    /\ pending'[t] = pending[t] /\ frames'[t] = frames[t] /\ pc'[t] = pc[t]
    /\ inv'[t] = inv[t] /\ ret'[t] = ret[t] /\ caught'[t] = caught[t]
    /\ rest'[t] = rest[t] /\ closure'[t] = closure[t]
    /\ outcome'[t] = outcome[t] /\ log'[t] = log[t] /\ calls'[t] = calls[t]

\* A step of one thread (a rejection, a call that induces an exception, a
\* catch that clears one, a throw) changes nothing of the other thread.
C22_OneThreadPerStep ==
    \A t \in Threads : ~Untouched(t) => \A u \in Threads \ {t} : Untouched(u)

\* What an invocation of jni_call_no_post_check_ex or jni_call_post_check_ex
\* returns, and what it leaves pending, follow from what was pending on its
\* own thread on entry and from what its own call induced; a catch wrapper is
\* refused exactly when its own thread had an exception pending on entry.
C22_OwnOutcome ==
    \A t \in Threads :
       (Returned(t) /\ inv[t].w \in {NoPostCheck, PostCheck, WithCatch}) =>
          /\ (outcome[t] = JavaException /\ Called(t) = {"ExceptionCheck"})
                <=> inv[t].entryPending # NoException
          /\ inv[t].w \in {NoPostCheck, PostCheck} =>
                /\ pending[t] = IF inv[t].entryPending # NoException
                                THEN inv[t].entryPending ELSE inv[t].induces
                /\ outcome[t] =
                      IF inv[t].entryPending # NoException THEN JavaException
                      ELSE IF inv[t].w = PostCheck /\ inv[t].induces # NoException
                      THEN JavaException
                      ELSE Ok(inv[t].raw)
          /\ (inv[t].w = WithCatch /\ inv[t].entryPending = NoException
                /\ inv[t].induces = NoException) =>
                pending[t] = NoException /\ outcome[t] = Ok(inv[t].raw)

\* C22: the pending-exception state is per thread.  With two attached
\* threads running the wrappers in any interleaving, a step of one thread
\* never changes the pending exception, the outcome or anything else of the
\* other thread, and each invocation's outcome follows from its own thread's
\* pending state on entry and its own call.
C22_PerThread == []C22_OwnOutcome /\ [][C22_OneThreadPerStep]_vars

\* One thread has an exception pending and was refused; the other, run in
\* between, caught and cleared its own exception and has nothing pending.
C22_Witness ==
    /\ Returned("main") /\ inv["main"].w = PostCheck
    /\ inv["main"].entryPending # NoException /\ outcome["main"] = JavaException
    /\ pending["main"] = "java.lang.OutOfMemoryError"
    /\ Returned("worker") /\ inv["worker"].w = WithCatch
    /\ inv["worker"].induces = "java.lang.NumberFormatException"
    /\ "ExceptionClear" \in Called("worker")
    /\ pending["worker"] = NoException

\* One thread's call induced an exception that stays pending while the
\* other thread's call returns Ok with nothing pending.
C22_WitnessInduced ==
    /\ Returned("worker") /\ inv["worker"].w = NoPostCheck
    /\ inv["worker"].induces # NoException /\ pending["worker"] # NoException
    /\ Returned("main") /\ inv["main"].w = PostCheck
    /\ outcome["main"] = Ok("ref") /\ pending["main"] = NoException
    /\ log["main"][1].pending = NoException
\* C23: a constructor generated by bind_java_type that is called through an
\* Env that is not the one of the top-most local frame (a newer frame pushed
\* with with_local_frame is still open) panics with "jni runtime check
\* failure" and creates no object; every object a constructor creates is
\* created through the Env of the top-most frame.
C23_AssertTop ==
    \A t \in Threads : \A i \in 1..Len(log[t]) :
       /\ (log[t][i].fn = "new" /\ log[t][i].env # log[t][i].depth) =>
             /\ i = Len(log[t])
             /\ pc[t] = "panicked"
             /\ outcome[t] = RuntimeCheckFailure
       /\ log[t][i].fn = "NewObject" => log[t][i].env = log[t][i].depth

\* The test: the Env of attach_current_thread used inside the closure of
\* with_local_frame.
C23_Witness ==
    \E t \in Threads :
       /\ Len(log[t]) = 2
       /\ log[t][1].fn = "PushLocalFrame"
       /\ log[t][2] = FrameEvent("new", 0, 1)
       /\ pc[t] = "panicked"

\* A constructor called through the Env of the newest frame returns its
\* object.
C23_WitnessTop ==
    \E t \in Threads :
       /\ Len(log[t]) = 3
       /\ log[t][3] = FrameEvent("NewObject", 1, 1)
       /\ outcome[t] = Ok("ref")
C24_WitnessNull ==
    \E t \in Threads : \E i \in 1..Len(log[t]) :
       /\ log[t][i].fn = "as_ref"
       /\ log[t][log[t][i].src].fn = "null"
       /\ Reference_is_null(log[t][i].ref)

\* A set made from a new object, converted with into.
C24_WitnessSetInto ==
    \E t \in Threads : \E i \in 1..Len(log[t]) :
       /\ log[t][i].fn = "into"
       /\ log[t][log[t][i].src].ref.type = "JSet"
       /\ log[t][i].ref.raw = 2
\* The log entries at which a catch macro detects the exception it catches:
\* the pending query after the call or block, answering that one is pending.
Detections(t) ==
    {i \in EventsOf(t, "ExceptionCheck") :
        /\ log[t][i].pending # NoException
        /\ \E j \in Attempts(t) : j < i}

\* What a catch macro calls from the detection of an exception to its clearing.
CatchOrder == <<"ExceptionCheck", "PushLocalFrame", "ExceptionOccurred", "ExceptionClear">>

\* C25: from the pending query that detects the exception to its clearing a
\* catch wrapper calls allow-listed operations only, in the order
\* ExceptionCheck, PushLocalFrame, ExceptionOccurred, ExceptionClear, each
\* with the detected exception pending (when the retrieval yields nothing the
\* clearing is replaced by the PopLocalFrame of the panic); every operation
\* that is not on the allow list (type test, class lookup, instance test,
\* handler) is called after the clearing, with nothing pending.
C25_AllowListedUntilCleared ==
    \A t \in Threads :
       inv[t].w \in CatchMacros =>
          \A i \in Detections(t) :
             /\ \A k \in 1..4 :
                   (i + k - 1 <= Len(log[t])) =>
                      /\ \/ log[t][i + k - 1].fn = CatchOrder[k]
                         \/ /\ k = 4 /\ closure[t] = Panic
                            /\ log[t][i + k - 1].fn = "PopLocalFrame"
                      /\ AllowListed(log[t][i + k - 1])
                      /\ log[t][i + k - 1].pending = log[t][i].pending
             /\ \A j \in i..Len(log[t]) :
                   ~AllowListed(log[t][j]) =>
                      /\ log[t][j].pending = NoException
                      /\ \E c \in EventsOf(t, "ExceptionClear") : i < c /\ c < j

C25_Witness ==
    \E t \in Threads :
       /\ inv[t].w = WithCatch /\ Returned(t)
       /\ Detections(t) = {3}
       /\ [k \in 1..4 |-> log[t][k + 2].fn] = CatchOrder
       /\ log[t][5].pending = "java.lang.OutOfMemoryError"
       /\ log[t][7].fn = "matches" /\ log[t][7].pending = NoException
       /\ "IsInstanceOf" \in Called(t) /\ "handler" \in Called(t)

C25_WitnessTry ==
    \E t \in Threads :
       /\ inv[t].w = JniTry /\ Returned(t)
       /\ Detections(t) = {2}
       /\ log[t][5].fn = "ExceptionClear"
       /\ "handler" \in Called(t)
\* C26: jni_call_no_post_check_ex does not detect an exception that the call
\* it makes induces: it returns Ok(raw result) with that exception pending,
\* and makes no pending query after the call; it returns Err(JavaException)
\* exactly when an exception was pending before the call.
C26_InducedNotDetected ==
    \A t \in Threads :
       (inv[t].w = NoPostCheck /\ Returned(t)) =>
          /\ outcome[t] = JavaException <=> inv[t].entryPending # NoException
          /\ inv[t].entryPending = NoException =>
                /\ outcome[t] = Ok(inv[t].raw)
                /\ pending[t] = inv[t].induces
                /\ [i \in 1..Len(log[t]) |-> log[t][i].fn] = <<"ExceptionCheck", "call">>
                /\ log[t][2].out = inv[t].induces

C26_Witness ==
    \E t \in Threads :
       /\ inv[t].w = NoPostCheck /\ Returned(t)
       /\ inv[t].induces = "java.lang.OutOfMemoryError"
       /\ inv[t].entryPending = NoException
       /\ outcome[t] = Ok("ref")
       /\ pending[t] = "java.lang.OutOfMemoryError"

C26_WitnessPendingBefore ==
    \E t \in Threads :
       /\ inv[t].w = NoPostCheck /\ Returned(t)
       /\ inv[t].entryPending # NoException
       /\ outcome[t] = JavaException
\* The invocation of thread t made its call, and the call both induced an
\* exception and returned null.
InducedAndNull(t) ==
    /\ Returned(t)
    /\ inv[t].entryPending = NoException
    /\ inv[t].induces # NoException
    /\ is_null(inv[t].raw)

C27_WitnessOnlyNull ==
    \E t \in Threads :
       /\ InducedAndNull(t) /\ inv[t].w = OnlyCheckNullRet
       /\ outcome[t].kind = "NullPtr"
       /\ pending[t] = "java.lang.NumberFormatException"
\* What the jni_call_with_catch inside the invocation of thread t evaluates
\* to: the refusal of the precheck, the value of the catch closure when an
\* exception was caught, Ok(raw result) otherwise.
InnerCatchResult(t) ==
    IF inv[t].entryPending # NoException THEN JavaException
    ELSE IF closure[t] # NoResult THEN closure[t]
    ELSE ret[t]

\* C28: jni_call_with_catch_and_null_check applies its null check to every Ok
\* the inner jni_call_with_catch evaluates to, whether it comes from the call
\* or from a handler: Ok(null) becomes Err(NullPtr("<name> result")), any
\* other Ok and every Err (of the precheck, of a handler, of a type test) is
\* returned as it is.
C28_NullCheckOnEveryOk ==
    \A t \in Threads :
       (inv[t].w = WithCatchNullCheck /\ Returned(t)) =>
          /\ outcome[t] # Ok("null")
          /\ outcome[t] = IF InnerCatchResult(t) = Ok("null")
                          THEN NullPtr(<<inv[t].op, " result">>)
                          ELSE InnerCatchResult(t)
          /\ "handler" \in Called(t) =>
                InnerCatchResult(t) = Head(rest[t]).res

\* The else handler gives Ok(null) after a call that returned a reference.
C28_Witness ==
    \E t \in Threads :
       /\ inv[t].w = WithCatchNullCheck /\ Returned(t)
       /\ inv[t].raw = "ref"
       /\ "handler" \in Called(t) /\ closure[t] = Ok("null")
       /\ outcome[t].kind = "NullPtr"

C28_WitnessTestError ==
    \E t \in Threads :
       /\ inv[t].w = WithCatchNullCheck /\ Returned(t)
       /\ TestError(t) /\ outcome[t].kind = "ClassNotFound"

C28_WitnessHandlerErr ==
    \E t \in Threads :
       /\ inv[t].w = WithCatchNullCheck /\ Returned(t)
       /\ "handler" \in Called(t) /\ outcome[t] = Mapped("JRuntimeException")

C28_WitnessRefused ==
    \E t \in Threads :
       /\ inv[t].w = WithCatchNullCheck /\ Returned(t)
       /\ inv[t].entryPending # NoException /\ outcome[t] = JavaException
\* The type tests of the invocation of thread t that returned an error.
FailedTests(t) == {i \in EventsOf(t, "matches") : log[t][i].out = "Err"}

\* C29: when a type test of a catch wrapper returns an error, that error is
\* the value of the wrapper: no typed entry is tested after it and no
\* handler, matching or else, is evaluated; the local frame is popped before
\* the wrapper returns; the caught exception was cleared before the test and
\* is not made pending again.
C29_TestErrorReturned ==
    \A t \in Threads :
       (inv[t].w \in CatchMacros /\ FailedTests(t) # {}) =>
          /\ Cardinality(FailedTests(t)) = 1
          /\ \A i \in FailedTests(t) :
                /\ \A j \in EventsOf(t, "matches") : j <= i
                /\ Before(t, "ExceptionClear", i)
                /\ log[t][i].pending = NoException
                /\ \A j \in (i + 1)..Len(log[t]) :
                      log[t][j].fn \in {"lookup_class", "PopLocalFrame"}
          /\ "handler" \notin Called(t)
          /\ pc[t] \in {"pop", "done"}
          /\ closure[t].tag = "Err" /\ closure[t].kind = "ClassNotFound"
          /\ pending[t] = NoException
          /\ caught[t] # NoException
          /\ Returned(t) =>
                /\ outcome[t] = closure[t]
                /\ log[t][Len(log[t])].fn = "PopLocalFrame"
                /\ frames[t] = inv[t].entryFrames

\* The first of two typed entries fails its test: the second is not tested.
C29_Witness ==
    \E t \in Threads :
       /\ inv[t].w = WithCatch /\ Returned(t)
       /\ Len(inv[t].site) = 3
       /\ FailedTests(t) # {} /\ Cardinality(EventsOf(t, "matches")) = 1
       /\ outcome[t].kind = "ClassNotFound"
       /\ pending[t] = NoException

\* The second typed entry fails its test after the first did not match.
C29_WitnessSecond ==
    \E t \in Threads :
       /\ inv[t].w = JniTry /\ Returned(t)
       /\ FailedTests(t) # {} /\ Cardinality(EventsOf(t, "matches")) = 2
       /\ outcome[t].kind = "ClassNotFound"
\* The exception a handler of the invocation of thread t induced, if any.
InducedByHandler(t) ==
    {log[t][i].out : i \in EventsOf(t, "handler")} \cap Throwables

\* C30: jni_try has no precheck.  Entered with an exception pending it runs
\* its block first, then finds that exception with its pending query,
\* retrieves it, clears it and maps it with the catch block as it maps an
\* exception the block induced; when it returns nothing is pending, unless
\* the handler induced a new exception.
C30_TryWithoutPrecheck ==
    \A t \in Threads :
       (inv[t].w = JniTry /\ inv[t].entryPending # NoException) =>
          /\ pc[t] # "precheck"
          /\ Len(log[t]) >= 1 =>
                log[t][1].fn = "block" /\ log[t][1].pending = inv[t].entryPending
          /\ Len(log[t]) >= 2 =>
                /\ log[t][2].fn = "ExceptionCheck"
                /\ log[t][2].pending = inv[t].entryPending
          /\ caught[t] \in {NoException, inv[t].entryPending}
          /\ Returned(t) =>
                /\ [i \in 1..5 |-> log[t][i].fn] =
                      <<"block", "ExceptionCheck", "PushLocalFrame",
                        "ExceptionOccurred", "ExceptionClear">>
                /\ caught[t] = inv[t].entryPending
                /\ outcome[t] = closure[t]
                /\ \/ outcome[t] = inv[t].site[FirstMatch(inv[t].site, caught[t])].res
                   \/ TestError(t) /\ outcome[t].kind = "ClassNotFound"
                /\ IF InducedByHandler(t) = {} THEN pending[t] = NoException
                   ELSE pending[t] \in InducedByHandler(t)

C30_Witness ==
    \E t \in Threads :
       /\ inv[t].w = JniTry /\ Returned(t)
       /\ inv[t].entryPending = "java.lang.NumberFormatException"
       /\ inv[t].induces = NoException
       /\ inv[t].block = Ok("ref")
       /\ outcome[t] = Mapped("JNumberFormatException")
       /\ pending[t] = NoException

C30_WitnessHandlerInduces ==
    \E t \in Threads :
       /\ inv[t].w = JniTry /\ Returned(t)
       /\ inv[t].entryPending = "java.lang.NumberFormatException"
       /\ pending[t] = "java.lang.OutOfMemoryError"
\* The entries whose type test or handler the invocation of thread t has
\* evaluated, in the order of evaluation.
IsTest(e) == e.fn = "matches"
IsHandler(e) == e.fn = "handler"
TestsMade(t) == [i \in 1..Len(SelectSeq(log[t], IsTest)) |-> SelectSeq(log[t], IsTest)[i].arg]
HandlersRun(t) == [i \in 1..Len(SelectSeq(log[t], IsHandler)) |-> SelectSeq(log[t], IsHandler)[i].arg]
\* The types of the first k entries of a catch block, as declared.
DeclaredTypes(site, k) == [i \in 1..k |-> site[i].type]
\* The number of type tests that find the entry for a throwable: k when the
\* first match is typed entry k, the number of typed entries when none
\* matches.
TestsNeeded(site, throwable) ==
    IF site[FirstMatch(site, throwable)].type = "else"
    THEN Len(site) - 1
    ELSE FirstMatch(site, throwable)

\* C31 as stated: the matcher makes exactly k type tests, in declared order,
\* when the first match is entry k (n when nothing matches), and evaluates
\* exactly one handler expression.
C31_Original ==
    \A t \in Threads :
       Matched(t) =>
          /\ TestsMade(t) = DeclaredTypes(inv[t].site, TestsNeeded(inv[t].site, caught[t]))
          /\ Len(HandlersRun(t)) = 1

\* C31 amended: the matcher tests the typed entries one by one in declared
\* order and stops at the first success.  When no type test returns an
\* error it makes exactly k tests when the first match is entry k (n when
\* nothing matches) and evaluates exactly one handler expression, the one of
\* that entry (the else handler when nothing matches).  When a type test
\* returns an error, that test is the last one, it is one of those k (or n),
\* and no handler expression is evaluated.  No invocation evaluates more
\* than one handler expression or tests an entry after the selected one.
C31_ShortCircuit ==
    \A t \in Threads :
       (inv[t].w \in CatchMacros /\ pc[t] # "build_failed") =>
          /\ Len(HandlersRun(t)) <= 1
          /\ Len(TestsMade(t)) <= Len(inv[t].site) - 1
          /\ TestsMade(t) = DeclaredTypes(inv[t].site, Len(TestsMade(t)))
          /\ caught[t] # NoException =>
                Len(TestsMade(t)) <= TestsNeeded(inv[t].site, caught[t])
          /\ Matched(t) =>
                IF TestError(t)
                THEN /\ HandlersRun(t) = <<>>
                     /\ SelectSeq(log[t], IsTest)[Len(TestsMade(t))].out = "Err"
                ELSE /\ Len(TestsMade(t)) = TestsNeeded(inv[t].site, caught[t])
                     /\ HandlersRun(t) =
                           <<inv[t].site[FirstMatch(inv[t].site, caught[t])].type>>

\* Three entries, the second typed entry is the first match: two tests, the
\* handler of the second entry.
C31_Witness ==
    \E t \in Threads :
       /\ Matched(t) /\ Returned(t) /\ Len(inv[t].site) = 3
       /\ FirstMatch(inv[t].site, caught[t]) = 2
       /\ Len(TestsMade(t)) = 2
       /\ HandlersRun(t) = <<inv[t].site[2].type>>

\* Nothing matches: one test per typed entry, then the else handler.
C31_WitnessNone ==
    \E t \in Threads :
       /\ Matched(t) /\ Returned(t) /\ Len(inv[t].site) = 3
       /\ Len(TestsMade(t)) = 2 /\ HandlersRun(t) = <<"else">>

\* The first match is the first entry: one test, the second entry untested.
C31_WitnessFirst ==
    \E t \in Threads :
       /\ Matched(t) /\ Returned(t) /\ Len(inv[t].site) = 3
       /\ Len(TestsMade(t)) = 1 /\ HandlersRun(t) = <<inv[t].site[1].type>>
       /\ inv[t].site[2].type # inv[t].site[1].type

\* A type test returns an error: no handler at all.
C31_WitnessTestError ==
    \E t \in Threads :
       /\ Matched(t) /\ Returned(t) /\ TestError(t)
       /\ HandlersRun(t) = <<>> /\ Len(TestsMade(t)) = 1
\* parse_jni_crate_override has returned to the macro of thread t.
ParseReturned(t) == inv[t].w = "parse_jni_crate_override" /\ Returned(t)
\* The input starts with the identifier jni immediately followed by `=`.
LeadingOverride(input) == Len(input) >= 2 /\ input[1] = "jni" /\ input[2] = "="
\* p is written as a path: identifiers separated by `::`, with or without a
\* leading `::`.
PathShape(p) ==
    /\ p # <<>>
    /\ LET q == IF Head(p) = "::" THEN Tail(p) ELSE p IN
       /\ Len(q) % 2 = 1
       /\ \A i \in 1..Len(q) : IF i % 2 = 1 THEN q[i] \in Idents ELSE q[i] = "::"
\* The input continues with a path: some initial part of it is written as a
\* path and is not followed by `::`.
PathFollows(input) ==
    \E n \in 1..Len(input) :
       /\ PathShape(SubSeq(input, 1, n))
       /\ n < Len(input) => input[n + 1] # "::"
\* What was consumed of the input of thread t is `jni`, `=`, the path that
\* was returned and at most one comma.
ConsumedOverride(t) ==
    /\ outcome[t].tag = "Ok"
    /\ PathShape(outcome[t].val)
    /\ \/ inv[t].site = <<"jni", "=">> \o outcome[t].val \o rest[t]
             /\ ~peek(rest[t], ",") /\ ~peek(rest[t], "::")
       \/ inv[t].site = <<"jni", "=">> \o outcome[t].val \o <<",">> \o rest[t]
\* Nothing was consumed and the default path is returned.
ConsumedNothing(t) ==
    /\ rest[t] = inv[t].site
    /\ outcome[t] = Ok(jni_crate_default)

\* C32 as stated: an input that starts with `jni` `=` has the identifier, the
\* `=`, the path and at most one following comma consumed and that path
\* returned; for every other input nothing is consumed and `::jni` is
\* returned.
C32_Original ==
    \A t \in Threads :
       ParseReturned(t) =>
          IF LeadingOverride(inv[t].site) THEN ConsumedOverride(t)
          ELSE ConsumedNothing(t)

\* C32 amended: an input that starts with `jni` `=` followed by a path has
\* the identifier, the `=`, the path and at most one following comma
\* consumed and that path returned; when what follows `jni` `=` is not a
\* path the parse error is returned, with the identifier and the `=`
\* consumed; for every other input (empty, first token not an identifier, a
\* different identifier, `jni` not followed by `=`) nothing is consumed and
\* `::jni` is returned.
C32_LeadingOverrideOnly ==
    \A t \in Threads :
       ParseReturned(t) =>
          IF LeadingOverride(inv[t].site)
          THEN IF PathFollows(SubSeq(inv[t].site, 3, Len(inv[t].site)))
               THEN ConsumedOverride(t)
               ELSE /\ outcome[t] = SynError
                    /\ \E n \in 2..Len(inv[t].site) :
                          rest[t] = SubSeq(inv[t].site, n + 1, Len(inv[t].site))
          ELSE ConsumedNothing(t)

\* `jni = name, name`: the path and one comma are consumed.
C32_Witness ==
    \E t \in Threads :
       /\ ParseReturned(t)
       /\ inv[t].site = <<"jni", "=", "name", ",", "name">>
       /\ outcome[t] = Ok(<<"name">>) /\ rest[t] = <<"name">>

\* `jni = name::jni`: a path of two segments.
C32_WitnessSegments ==
    \E t \in Threads :
       /\ ParseReturned(t)
       /\ inv[t].site = <<"jni", "=", "name", "::", "jni">>
       /\ outcome[t] = Ok(<<"name", "::", "jni">>) /\ rest[t] = <<>>

\* `jni , ..`: jni not followed by `=`, nothing consumed.
C32_WitnessNoEq ==
    \E t \in Threads :
       /\ ParseReturned(t)
       /\ inv[t].site = <<"jni", ",", "name", "=">>
       /\ rest[t] = inv[t].site /\ outcome[t] = Ok(jni_crate_default)

\* `jni = 5`: no path after `=`.
C32_WitnessNoPath ==
    \E t \in Threads :
       /\ ParseReturned(t)
       /\ inv[t].site = <<"jni", "=", "5">>
       /\ outcome[t] = SynError /\ rest[t] = <<"5">>
\* `jni = ::name,,`: a leading `::`, and only one of two commas consumed.
C32_WitnessOneComma ==
    \E t \in Threads :
       /\ ParseReturned(t)
       /\ inv[t].site = <<"jni", "=", "name", ",", ",">>
       /\ outcome[t] = Ok(<<"name">>) /\ rest[t] = <<",">>

\* `jni = name :: 5`: the path breaks off after `::`.
C32_WitnessBrokenPath ==
    \E t \in Threads :
       /\ ParseReturned(t)
       /\ inv[t].site = <<"jni", "=", "name", "::", "5">>
       /\ outcome[t] = SynError

====
